---------------------------- MODULE Spec2Model ----------------------------
(***************************************************************************)
(* A model of src/findgroups/groupfinder.c: the structure group finder.    *)
(* One run of main: configure, parse, build the spatial index, create the  *)
(* worker threads, enumerate the groups of 3 and 4 cell by cell, join,     *)
(* write the summary.                                                      *)
(*                                                                         *)
(* Point indices, cell indices and thread ids are zero-based as in the C   *)
(* code; the arrays are sequences, so g_structures[idx] of the code is     *)
(* g_structures[idx + 1] here.                                             *)
(***************************************************************************)
EXTENDS Integers, Sequences, FiniteSets

(***************************************************************************)
(* Bounds of the model.                                                    *)
(***************************************************************************)
\* Longest input file, in lines.
MaxLines == 5
\* Longest input file whose lines differ from one another.
MaxVaried == 4
\* The candidates[4096] array of find_groups_in_cell, scaled to the model's
\* point counts so that its truncation is reachable.
CandCap == 3
\* The LOW tier's neighbor buffer (65536 entries in the code), scaled likewise;
\* BALANCED and HIGH keep the code's factors 2 and 4 over it.
NeighborCapLow == 4

\* The least capacity preallocate_structures gives the point array (1024 in the
\* code: scaled so that the array has to grow while the file is parsed).
MinCapacity == 2

\* The largest physical memory detect_and_configure is tried with, in halves
\* of a GiB.
MaxHalfGiB == 280

\* The most points the index is built from when find_cell is tried.
MaxProbePoints == 3

\* The hash table is sized for cell counts up to 2^MaxProbeCellBits + 1.
MaxProbeCellBits == 27

\* The largest radius the neighbor gather is tried with.
MaxProbeRadius == 2

\* The width of int32_t in the properties of single functions, in bits; int64_t
\* has twice as many.  (32 and 64 in the code: scaled so that the ends of both
\* ranges are reached.)
CoordBits == 4

\* The coordinates the input points are drawn from.
PointPool ==
    { <<-1, -1>>, <<0, 0>>, <<2, 0>>, <<1, 2>> }
\* A line of the input file: a point "->(x,z)", or a line parse_line rejects.
Malformed == <<"malformed">>
LinePool == PointPool \cup {Malformed}
\* The radii entered at the prompt.
Radii == {1, 2}
\* The thread counts entered at the prompt (the code accepts 1 to 256).
ThreadCounts == {1, 2}
\* The outcomes of detect_and_configure: (g_mode, g_cell_multiplier).
TierOutcomes ==
    { <<"HIGH", 1>>, <<"BALANCED", 2>>, <<"LOW", 4>> }

(***************************************************************************)
(* Integer helpers.                                                        *)
(***************************************************************************)
\* C's integer division, which truncates toward zero (b > 0).
CDiv(a, b) == IF a >= 0 THEN a \div b ELSE -((-a) \div b)

RECURSIVE Xor(_, _)
\* Bitwise exclusive or of two naturals.
Xor(a, b) ==
    IF a = 0 THEN b
    ELSE IF b = 0 THEN a
    ELSE ((a + b) % 2) + 2 * Xor(a \div 2, b \div 2)

(***************************************************************************)
(* uint64_t arithmetic.  The checker's integers are narrower than 64 bits, *)
(* so a uint64_t is a sequence of bytes, least significant first.  The     *)
(* hash is masked to a table of at most 2^27 buckets, and the low 32 bits  *)
(* of an exclusive or and of a product modulo 2^64 depend on the low 32    *)
(* bits of the operands only: the four low bytes are carried, the four     *)
(* high bytes, which the mask drops, are not.                              *)
(***************************************************************************)
\* The low bytes of (uint64_t)v for an int64_t v: two's complement.
ToU64(v) ==
    << v % 256, (v \div 256) % 256, (v \div 65536) % 256, (v \div 16777216) % 256 >>

U64Xor(a, b) == [i \in 1..4 |-> Xor(a[i], b[i])]

\* a * b modulo 2^64, low bytes: column k of the schoolbook product sums the
\* a[i] * b[k + 1 - i], and the carries run upward.
U64Mul(a, b) ==
    LET s1 == a[1] * b[1]
        s2 == (s1 \div 256) + a[1] * b[2] + a[2] * b[1]
        s3 == (s2 \div 256) + a[1] * b[3] + a[2] * b[2] + a[3] * b[1]
        s4 == (s3 \div 256) + a[1] * b[4] + a[2] * b[3] + a[3] * b[2] + a[4] * b[1]
    IN  << s1 % 256, s2 % 256, s3 % 256, s4 % 256 >>

\* a & (size - 1) for a power of two size up to 2^30.
U64Mask(a, size) ==
    (a[1] + 256 * a[2] + 65536 * a[3] + 16777216 * (a[4] % 64)) % size

(***************************************************************************)
(* Utility functions of the code.                                          *)
(***************************************************************************)
coord_to_cell(coord, cell_size) ==
    IF coord >= 0 THEN CDiv(coord, cell_size)
    ELSE CDiv(coord - cell_size + 1, cell_size)

RECURSIVE TwoTo(_)
TwoTo(n) == IF n = 0 THEN 1 ELSE 2 * TwoTo(n - 1)

\* The ranges of int32_t and int64_t at the width CoordBits.
Int32Min == -TwoTo(CoordBits - 1)
Int32Max == TwoTo(CoordBits - 1) - 1
Int64Min == -TwoTo(2 * CoordBits - 1)
Int64Max == TwoTo(2 * CoordBits - 1) - 1

\* What a call coord_to_cell(coord, cell_size) may return.  Both operands are
\* int64_t in "coord - cell_size + 1", evaluated left to right; when
\* coord - cell_size leaves the range of int64_t the behaviour is undefined
\* and any value may come back.
coord_to_cell_outcomes(coord, cell_size) ==
    IF coord >= 0 THEN { CDiv(coord, cell_size) }
    ELSE IF coord - cell_size < Int64Min THEN Int64Min..Int64Max
    ELSE { CDiv(coord - cell_size + 1, cell_size) }

\* 14695981039346656037 = 0xCBF29CE484222325: its low bytes 25 23 22 84.
FnvOffsetBasis == <<37, 35, 34, 132>>
\* 1099511628211 = 0x00000100000001B3: its low bytes B3 01 00 00.
FnvPrime == <<179, 1, 0, 0>>

hash_cell(cx, cz, table_size) ==
    LET h1 == U64Xor(FnvOffsetBasis, ToU64(cx))
        h2 == U64Mul(h1, FnvPrime)
        h3 == U64Xor(h2, ToU64(cz))
        h4 == U64Mul(h3, FnvPrime)
    IN  U64Mask(h4, table_size)

(***************************************************************************)
(* Point store.  HIGH and BALANCED keep StructureFast records (x, z and    *)
(* the precomputed cellX, cellZ), LOW keeps StructureCompact records.      *)
(***************************************************************************)
UseFast(mode) == mode = "HIGH" \/ mode = "BALANCED"

\* What parse_file stores for one accepted line.
StoredStructure(line, use_fast) ==
    IF use_fast THEN [x |-> line[1], z |-> line[2], cellX |-> 0, cellZ |-> 0]
    ELSE [x |-> line[1], z |-> line[2]]

RECURSIVE ParsedStructures(_, _)
\* The array parse_file leaves: one record per line parse_line accepts, in
\* file order; a rejected line is skipped.
ParsedStructures(ls, use_fast) ==
    IF ls = <<>> THEN <<>>
    ELSE LET rest == ParsedStructures(Tail(ls), use_fast)
         IN  IF Head(ls) = Malformed THEN rest
             ELSE <<StoredStructure(Head(ls), use_fast)>> \o rest

(***************************************************************************)
(* Sorting.                                                                *)
(***************************************************************************)
\* A faulty variant of compare_fast that compares cellX only.
compare_fast_x_only(sa, sb) ==
    IF sa.cellX < sb.cellX THEN -1
    ELSE IF sa.cellX > sb.cellX THEN 1
    ELSE 0

\* A faulty variant of the comparator below that orders by cellZ, then cellX.
compare_fast_z_first(sa, sb) ==
    IF sa.cellZ < sb.cellZ THEN -1
    ELSE IF sa.cellZ > sb.cellZ THEN 1
    ELSE IF sa.cellX < sb.cellX THEN -1
    ELSE IF sa.cellX > sb.cellX THEN 1
    ELSE 0

compare_fast(sa, sb) ==
    IF sa.cellX < sb.cellX THEN -1
    ELSE IF sa.cellX > sb.cellX THEN 1
    ELSE IF sa.cellZ < sb.cellZ THEN -1
    ELSE IF sa.cellZ > sb.cellZ THEN 1
    ELSE 0

compare_compact(sa, sb, cell_size) ==
    LET cellXa == coord_to_cell(sa.x, cell_size)
        cellXb == coord_to_cell(sb.x, cell_size)
        cellZa == coord_to_cell(sa.z, cell_size)
        cellZb == coord_to_cell(sb.z, cell_size)
    IN  IF cellXa < cellXb THEN -1
        ELSE IF cellXa > cellXb THEN 1
        ELSE IF cellZa < cellZb THEN -1
        ELSE IF cellZa > cellZb THEN 1
        ELSE 0

\* The comparator build_spatial_index hands to qsort.
Compare(sa, sb, use_fast, cell_size) ==
    IF use_fast THEN compare_fast(sa, sb) ELSE compare_compact(sa, sb, cell_size)

RECURSIVE SortedOrders(_, _, _, _)
\* The orders qsort may leave the elements at positions R of arr in: every
\* arrangement that is ascending under the comparator.  qsort is not stable,
\* so elements that compare equal may end in any order.
SortedOrders(arr, R, use_fast, cell_size) ==
    IF R = {} THEN { <<>> }
    ELSE LET least == { i \in R : \A j \in R :
                          Compare(arr[i], arr[j], use_fast, cell_size) <= 0 }
         IN  UNION { { <<arr[i]>> \o rest :
                        rest \in SortedOrders(arr, R \ {i}, use_fast, cell_size) } :
                     i \in least }

QsortResults(arr, use_fast, cell_size) ==
    SortedOrders(arr, 1..Len(arr), use_fast, cell_size)

(***************************************************************************)
(* Spatial index building.                                                 *)
(***************************************************************************)
\* The loop that precomputes cellX, cellZ in the fast modes.
PrecomputeCells(arr, cell_size) ==
    [i \in 1..Len(arr) |->
        [x |-> arr[i].x, z |-> arr[i].z,
         cellX |-> coord_to_cell(arr[i].x, cell_size),
         cellZ |-> coord_to_cell(arr[i].z, cell_size)]]

\* The cell coordinates the build loops read for arr[i] (i zero-based): the
\* stored ones in the fast modes, recomputed ones in LOW.
CellXOf(arr, i, use_fast, cell_size) ==
    IF use_fast THEN arr[i + 1].cellX ELSE coord_to_cell(arr[i + 1].x, cell_size)
CellZOf(arr, i, use_fast, cell_size) ==
    IF use_fast THEN arr[i + 1].cellZ ELSE coord_to_cell(arr[i + 1].z, cell_size)

RECURSIVE CountCellsFrom(_, _, _, _, _, _, _)
\* "Count unique cells": the loop from i with num_cells counted so far and
\* (prev_cx, prev_cz) the coordinates of the cell being run through.
CountCellsFrom(arr, i, num_cells, prev_cx, prev_cz, use_fast, cell_size) ==
    IF i >= Len(arr) THEN num_cells
    ELSE LET cx == CellXOf(arr, i, use_fast, cell_size)
             cz == CellZOf(arr, i, use_fast, cell_size)
         IN  IF cx # prev_cx \/ cz # prev_cz
             THEN CountCellsFrom(arr, i + 1, num_cells + 1, cx, cz, use_fast, cell_size)
             ELSE CountCellsFrom(arr, i + 1, num_cells, prev_cx, prev_cz,
                                 use_fast, cell_size)

CountCells(arr, use_fast, cell_size) ==
    CountCellsFrom(arr, 1, 1, CellXOf(arr, 0, use_fast, cell_size),
                   CellZOf(arr, 0, use_fast, cell_size), use_fast, cell_size)

RECURSIVE BuildCellsFrom(_, _, _, _, _, _, _)
\* "Build cell entries": the loop from i with cell_start the first point of
\* the running cell; returns the entries written from here on.
BuildCellsFrom(arr, i, cell_start, prev_cx, prev_cz, use_fast, cell_size) ==
    IF i > Len(arr) THEN <<>>
    ELSE LET at_end == (i = Len(arr))
             cx == IF at_end THEN prev_cx ELSE CellXOf(arr, i, use_fast, cell_size)
             cz == IF at_end THEN prev_cz ELSE CellZOf(arr, i, use_fast, cell_size)
             is_new == at_end \/ cx # prev_cx \/ cz # prev_cz
         IN  IF is_new
             THEN << [cellX |-> CellXOf(arr, cell_start, use_fast, cell_size),
                      cellZ |-> CellZOf(arr, cell_start, use_fast, cell_size),
                      start |-> cell_start,
                      count |-> i - cell_start,
                      next  |-> 0] >>
                  \o BuildCellsFrom(arr, i + 1, i, cx, cz, use_fast, cell_size)
             ELSE BuildCellsFrom(arr, i + 1, cell_start, prev_cx, prev_cz,
                                 use_fast, cell_size)

BuildCells(arr, use_fast, cell_size) ==
    BuildCellsFrom(arr, 1, 0, CellXOf(arr, 0, use_fast, cell_size),
                   CellZOf(arr, 0, use_fast, cell_size), use_fast, cell_size)

MaxHashBits(mode) ==
    IF mode = "HIGH" THEN 27 ELSE IF mode = "BALANCED" THEN 26 ELSE 24

RECURSIVE Pow2(_)
Pow2(n) == IF n = 0 THEN 1 ELSE 2 * Pow2(n - 1)

RECURSIVE HashTableSizeFrom_inclusive(_, _, _)
\* A faulty variant of the loop below that also doubles a size equal to
\* num_cells * 2.
HashTableSizeFrom_inclusive(size, num_cells, max_hash_bits) ==
    IF size <= num_cells * 2 /\ size < Pow2(max_hash_bits)
    THEN HashTableSizeFrom_inclusive(size * 2, num_cells, max_hash_bits)
    ELSE size

RECURSIVE HashTableSizeFrom(_, _, _)
\* The doubling loop on g_hash_table_size.
HashTableSizeFrom(size, num_cells, max_hash_bits) ==
    IF size < num_cells * 2 /\ size < Pow2(max_hash_bits)
    THEN HashTableSizeFrom(size * 2, num_cells, max_hash_bits)
    ELSE size

HashTableSize(num_cells, mode) ==
    HashTableSizeFrom(Pow2(20), num_cells, MaxHashBits(mode))

\* The hash table is calloc'ed: a bucket never written holds 0.  Only the
\* written buckets are kept.
BucketHead(table, h) == IF h \in DOMAIN table THEN table[h] ELSE 0

RECURSIVE InsertCellsFrom_no_link(_, _, _, _)
\* A faulty variant of the loop below that does not store the old head of the
\* bucket in the cell's next link.
InsertCellsFrom_no_link(cells, table, i, table_size) ==
    IF i >= Len(cells) THEN [cells |-> cells, table |-> table]
    ELSE LET h == hash_cell(cells[i + 1].cellX, cells[i + 1].cellZ, table_size)
             stored == [b \in (DOMAIN table) \cup {h} |->
                          IF b = h THEN i + 1 ELSE table[b]]
         IN  InsertCellsFrom_no_link(cells, stored, i + 1, table_size)

RECURSIVE InsertCellsFrom(_, _, _, _)
\* The loop that chains every cell into its bucket, from cell i (zero-based):
\* returns the cells with their next links and the table.
InsertCellsFrom(cells, table, i, table_size) ==
    IF i >= Len(cells) THEN [cells |-> cells, table |-> table]
    ELSE LET h == hash_cell(cells[i + 1].cellX, cells[i + 1].cellZ, table_size)
             linked == [cells EXCEPT ![i + 1].next = BucketHead(table, h)]
             stored == [b \in (DOMAIN table) \cup {h} |->
                          IF b = h THEN i + 1 ELSE table[b]]
         IN  InsertCellsFrom(linked, stored, i + 1, table_size)

\* Everything build_spatial_index leaves for the sorted array arr.
IndexOf(arr, mode, mult, cell_size) ==
    LET use_fast == UseFast(mode)
        num_cells == CountCells(arr, use_fast, cell_size)
        entries == BuildCells(arr, use_fast, cell_size)
        size == HashTableSize(num_cells, mode)
        chained == InsertCellsFrom(entries, <<>>, 0, size)
    IN  [structures |-> arr,
         cells |-> chained.cells,
         cells_count |-> num_cells,
         hash_table |-> chained.table,
         hash_table_size |-> size,
         cell_size |-> cell_size,
         mode |-> mode,
         cell_multiplier |-> mult]

\* The arrays build_spatial_index may leave for the parsed array: the cell
\* coordinates filled in (fast modes), then sorted.
SortedStructures(parsed, mode, cell_size) ==
    QsortResults(IF UseFast(mode) THEN PrecomputeCells(parsed, cell_size) ELSE parsed,
                 UseFast(mode), cell_size)

RECURSIVE FindInChain(_, _, _, _)
FindInChain(ix, idx, cx, cz) ==
    IF idx = 0 THEN -1
    ELSE LET cell == ix.cells[idx]
         IN  IF cell.cellX = cx /\ cell.cellZ = cz THEN idx - 1
             ELSE FindInChain(ix, cell.next, cx, cz)

\* find_cell: the index of the cell at (cx, cz), or -1 for NULL.
find_cell(ix, cx, cz) ==
    FindInChain(ix, BucketHead(ix.hash_table, hash_cell(cx, cz, ix.hash_table_size)),
                cx, cz)

(***************************************************************************)
(* Group finding.                                                          *)
(***************************************************************************)
\* get_coords: the (x, z) of point idx.
get_coords(ix, idx) == <<ix.structures[idx + 1].x, ix.structures[idx + 1].z>>

dist_sq_idx(ix, a, b) ==
    LET dx == get_coords(ix, a)[1] - get_coords(ix, b)[1]
        dz == get_coords(ix, a)[2] - get_coords(ix, b)[2]
    IN  dx * dx + dz * dz

RECURSIVE CoordSum(_, _, _, _)
\* The first loop of is_valid_group: the sum of coordinate c (1: x, 2: z) of
\* group[0 .. i-1].
CoordSum(ix, group, i, c) ==
    IF i = 0 THEN 0
    ELSE get_coords(ix, group[i])[c] + CoordSum(ix, group, i - 1, c)

RECURSIVE AllWithinFrom(_, _, _, _, _, _, _)
\* The second loop of is_valid_group from member i (one-based).  The code
\* divides the sums by count and compares dx*dx + dz*dz with radius_sq in
\* double precision; here both sides are multiplied by count*count, which
\* decides the same for coordinates and radii below 2^20, where the doubles'
\* rounding error stays far below the 1/count^2 the two sides differ by when
\* they differ.
AllWithinFrom(ix, group, count, i, sx, sz, radius_sq) ==
    IF i > count THEN TRUE
    ELSE LET dx == count * get_coords(ix, group[i])[1] - sx
             dz == count * get_coords(ix, group[i])[2] - sz
         IN  IF dx * dx + dz * dz > count * count * radius_sq THEN FALSE
             ELSE AllWithinFrom(ix, group, count, i + 1, sx, sz, radius_sq)

\* A faulty variant of is_valid_group whose second loop stops after group[0].
is_valid_group_first_only(ix, group, count, radius_sq) ==
    LET dx == count * get_coords(ix, group[1])[1] - CoordSum(ix, group, count, 1)
        dz == count * get_coords(ix, group[1])[2] - CoordSum(ix, group, count, 2)
    IN  dx * dx + dz * dz <= count * count * radius_sq

\* A faulty variant of is_valid_group that compares with the squared pair
\* distance 4 * radius_sq instead of radius_sq.
is_valid_group_pair_radius(ix, group, count, radius_sq) ==
    AllWithinFrom(ix, group, count, 1,
                  CoordSum(ix, group, count, 1), CoordSum(ix, group, count, 2),
                  4 * radius_sq)

is_valid_group(ix, group, count, radius_sq) ==
    AllWithinFrom(ix, group, count, 1,
                  CoordSum(ix, group, count, 1), CoordSum(ix, group, count, 2),
                  radius_sq)

\* A faulty variant of search_range that halves the multiplier rounding down.
search_range_rounded_down(mult) == CDiv(mult, 2) + 1

\* A faulty variant of search_range without the margin of one cell.
search_range_no_margin(mult) == CDiv(mult + 1, 2)

\* int search_range = (g_cell_multiplier + 1) / 2 + 1.
search_range(mult) == CDiv(mult + 1, 2) + 1

\* The neighbor buffer of a worker, by tier (262144, 131072, 65536 entries in
\* the code).
NeighborBufSize(mode) ==
    IF mode = "HIGH" THEN 4 * NeighborCapLow
    ELSE IF mode = "BALANCED" THEN 2 * NeighborCapLow
    ELSE NeighborCapLow

RECURSIVE AppendCell_no_room_check(_, _, _, _)
\* A faulty variant of the loop below that does not test num_neighbors
\* against max_neighbors.
AppendCell_no_room_check(neighbors, nc, i, max_neighbors) ==
    IF i < nc.count
    THEN AppendCell_no_room_check(Append(neighbors, nc.start + i), nc, i + 1,
                                  max_neighbors)
    ELSE neighbors

RECURSIVE AppendCell(_, _, _, _)
\* The innermost gather loop: the points start+i .. of cell nc appended while
\* the buffer has room.
AppendCell(neighbors, nc, i, max_neighbors) ==
    IF i < nc.count /\ Len(neighbors) < max_neighbors
    THEN AppendCell(Append(neighbors, nc.start + i), nc, i + 1, max_neighbors)
    ELSE neighbors

\* A faulty variant of the window below whose loops stop one cell short of
\* +search_range (dx, dz < search_range instead of <=).
WindowCells_half_open(ix, cell) ==
    LET w == search_range(ix.cell_multiplier)
        side == 2 * w
    IN  SelectSeq([c \in 1..(side * side) |->
                      find_cell(ix, cell.cellX + ((c - 1) \div side) - w,
                                    cell.cellZ + ((c - 1) % side) - w)],
                  LAMBDA nc : nc # -1)

\* The cells "Collect neighbors" finds, in the order its loops visit them:
\* window position c stands for dx = c \div (2w+1) - w, dz = c % (2w+1) - w
\* (dx outer, dz inner, both ascending); a position where find_cell returns
\* NULL is skipped.
WindowCells(ix, cell) ==
    LET w == search_range(ix.cell_multiplier)
        side == 2 * w + 1
    IN  SelectSeq([c \in 1..(side * side) |->
                      find_cell(ix, cell.cellX + ((c - 1) \div side) - w,
                                    cell.cellZ + ((c - 1) % side) - w)],
                  LAMBDA nc : nc # -1)

RECURSIVE GatherFrom(_, _, _, _, _)
\* "Collect neighbors" from the n-th found cell on.
GatherFrom(ix, found, n, neighbors, max_neighbors) ==
    IF n > Len(found) THEN neighbors
    ELSE GatherFrom(ix, found, n + 1,
                    AppendCell(neighbors, ix.cells[found[n] + 1], 0, max_neighbors),
                    max_neighbors)

GatherNeighbors(ix, cell, max_neighbors) ==
    GatherFrom(ix, WindowCells(ix, cell), 1, <<>>, max_neighbors)

RECURSIVE CandidatesFrom(_, _, _, _, _, _)
\* "Build candidates" from neighbor ni (zero-based) on.
CandidatesFrom(ix, base_idx, neighbors, ni, candidates, max_pair_dist_sq) ==
    IF ni < Len(neighbors) /\ Len(candidates) < CandCap
    THEN LET idx == neighbors[ni + 1]
         IN  IF idx <= base_idx
             THEN CandidatesFrom(ix, base_idx, neighbors, ni + 1, candidates,
                                 max_pair_dist_sq)
             ELSE IF dist_sq_idx(ix, base_idx, idx) <= max_pair_dist_sq
             THEN CandidatesFrom(ix, base_idx, neighbors, ni + 1,
                                 Append(candidates, idx), max_pair_dist_sq)
             ELSE CandidatesFrom(ix, base_idx, neighbors, ni + 1, candidates,
                                 max_pair_dist_sq)
    ELSE candidates

\* Faulty variants of "Build candidates", for showing what rests on its
\* test idx <= base_idx.  The first skips the base alone, so that a group is
\* built under each of its members; the second skips idx < base_idx only, so
\* that the base is a candidate of itself.
BuildCandidates_any_order(ix, base_idx, neighbors, max_pair_dist_sq) ==
    LET near == SelectSeq(neighbors,
                          LAMBDA idx : /\ idx # base_idx
                                       /\ dist_sq_idx(ix, base_idx, idx)
                                            <= max_pair_dist_sq)
    IN  SubSeq(near, 1, IF Len(near) < CandCap THEN Len(near) ELSE CandCap)

BuildCandidates_with_base(ix, base_idx, neighbors, max_pair_dist_sq) ==
    LET near == SelectSeq(neighbors,
                          LAMBDA idx : /\ idx >= base_idx
                                       /\ dist_sq_idx(ix, base_idx, idx)
                                            <= max_pair_dist_sq)
    IN  SubSeq(near, 1, IF Len(near) < CandCap THEN Len(near) ELSE CandCap)

BuildCandidates(ix, base_idx, neighbors, max_pair_dist_sq) ==
    CandidatesFrom(ix, base_idx, neighbors, 0, <<>>, max_pair_dist_sq)

\* The (i, j, k) the "Groups of 4" loops visit, in their order: i < j < k < n,
\* i outermost.  Zero-based.
LoopTriples(n) ==
    SelectSeq([c \in 1..(n * n * n) |->
                  << (c - 1) \div (n * n), ((c - 1) \div n) % n, (c - 1) % n >>],
              LAMBDA t : t[1] < t[2] /\ t[2] < t[3])

\* The (i, j) the "Groups of 3" loops visit, in their order: i < j < n.
LoopPairs(n) ==
    SelectSeq([c \in 1..(n * n) |-> << (c - 1) \div n, (c - 1) % n >>],
              LAMBDA t : t[1] < t[2])

RECURSIVE MapGroups(_, _, _)
\* The groups built from the index tuples ts over the candidates, in order.
MapGroups(base_idx, candidates, ts) ==
    IF ts = <<>> THEN <<>>
    ELSE << <<base_idx>> \o [m \in 1..Len(Head(ts)) |-> candidates[Head(ts)[m] + 1]] >>
         \o MapGroups(base_idx, candidates, Tail(ts))

\* The groups of 4 output for one base, in output order.
GroupsOf4(ix, base_idx, candidates, radius_sq) ==
    LET max_pair_dist_sq == 4 * radius_sq
        pass(t) ==
            /\ dist_sq_idx(ix, candidates[t[1] + 1], candidates[t[2] + 1]) <= max_pair_dist_sq
            /\ dist_sq_idx(ix, candidates[t[1] + 1], candidates[t[3] + 1]) <= max_pair_dist_sq
            /\ dist_sq_idx(ix, candidates[t[2] + 1], candidates[t[3] + 1]) <= max_pair_dist_sq
    IN  SelectSeq(MapGroups(base_idx, candidates,
                            SelectSeq(LoopTriples(Len(candidates)), pass)),
                  LAMBDA group : is_valid_group(ix, group, 4, radius_sq))

\* A faulty variant of the step below whose pair test compares with radius_sq
\* instead of 4 * radius_sq.
GroupsOf3_radius_prune(ix, base_idx, candidates, radius_sq) ==
    LET pass(t) ==
            dist_sq_idx(ix, candidates[t[1] + 1], candidates[t[2] + 1]) <= radius_sq
    IN  SelectSeq(MapGroups(base_idx, candidates,
                            SelectSeq(LoopPairs(Len(candidates)), pass)),
                  LAMBDA group : is_valid_group(ix, group, 3, radius_sq))

\* The groups of 3 output for one base, in output order.
GroupsOf3(ix, base_idx, candidates, radius_sq) ==
    LET max_pair_dist_sq == 4 * radius_sq
        pass(t) ==
            dist_sq_idx(ix, candidates[t[1] + 1], candidates[t[2] + 1]) <= max_pair_dist_sq
    IN  SelectSeq(MapGroups(base_idx, candidates,
                            SelectSeq(LoopPairs(Len(candidates)), pass)),
                  LAMBDA group : is_valid_group(ix, group, 3, radius_sq))

\* A faulty variant of the base loop's body that moves on to the next base
\* when there are fewer than three candidates (num_cand < 3), so that a base
\* with two candidates yields no group of 3.
GroupsOfBase_three_candidates(ix, base_idx, neighbors, radius_sq) ==
    LET candidates == BuildCandidates(ix, base_idx, neighbors, 4 * radius_sq)
    IN  IF Len(candidates) < 3 THEN <<>>
        ELSE GroupsOf4(ix, base_idx, candidates, radius_sq)
             \o GroupsOf3(ix, base_idx, candidates, radius_sq)

\* A faulty variant of the step below that outputs the groups of 3 of a base
\* before its groups of 4.
GroupsOfBase_threes_first(ix, base_idx, neighbors, radius_sq) ==
    LET candidates == BuildCandidates(ix, base_idx, neighbors, 4 * radius_sq)
        num_cand == Len(candidates)
    IN  IF num_cand < 2 THEN <<>>
        ELSE GroupsOf3(ix, base_idx, candidates, radius_sq)
             \o (IF num_cand >= 3 THEN GroupsOf4(ix, base_idx, candidates, radius_sq)
                 ELSE <<>>)

\* Whether the body of the base loop reaches the loops over groups of 3: it
\* moves on to the next base when num_cand < 2.
GroupsOf3Entered(num_cand) == ~(num_cand < 2)

\* Whether it reaches the loops over groups of 4, which stand under
\* "if (num_cand >= 3)".
GroupsOf4Entered(num_cand) == ~(num_cand < 2) /\ num_cand >= 3

\* The body of the base loop for one base: the groups it outputs, in order.
GroupsOfBase(ix, base_idx, neighbors, radius_sq) ==
    LET candidates == BuildCandidates(ix, base_idx, neighbors, 4 * radius_sq)
        num_cand == Len(candidates)
    IN  (IF GroupsOf4Entered(num_cand)
         THEN GroupsOf4(ix, base_idx, candidates, radius_sq)
         ELSE <<>>)
        \o (IF GroupsOf3Entered(num_cand)
            THEN GroupsOf3(ix, base_idx, candidates, radius_sq)
            ELSE <<>>)

RECURSIVE BaseLoopFrom(_, _, _, _, _)
BaseLoopFrom(ix, cell, ci, neighbors, radius_sq) ==
    IF ci >= cell.count THEN <<>>
    ELSE GroupsOfBase(ix, cell.start + ci, neighbors, radius_sq)
         \o BaseLoopFrom(ix, cell, ci + 1, neighbors, radius_sq)

\* A faulty variant of find_groups_in_cell that returns early on three
\* neighbors too (num_neighbors <= 3).
find_groups_in_cell_early(ix, cell, max_neighbors, radius_sq) ==
    LET neighbors == GatherNeighbors(ix, cell, max_neighbors)
    IN  IF Len(neighbors) <= 3 THEN <<>>
        ELSE BaseLoopFrom(ix, cell, 0, neighbors, radius_sq)

\* find_groups_in_cell: the groups it hands to output_group, in order.
find_groups_in_cell(ix, cell, max_neighbors, radius_sq) ==
    LET neighbors == GatherNeighbors(ix, cell, max_neighbors)
    IN  IF Len(neighbors) < 3 THEN <<>>
        ELSE BaseLoopFrom(ix, cell, 0, neighbors, radius_sq)

(***************************************************************************)
(* detect_and_configure.  Memory is counted in units of 2^17 bytes and     *)
(* points in units of 2^20 points: for a physical memory and an estimated  *)
(* count that are whole numbers of these units, every size the function    *)
(* computes is a whole number of units and every comparison it makes has   *)
(* the outcome it has in bytes.                                            *)
(***************************************************************************)
\* 2^30 bytes, in units.
GiB == 8192

\* sizeof(StructureFast), sizeof(StructureCompact), sizeof(CellEntry), bytes.
sizeof_StructureFast == 24
sizeof_StructureCompact == 8
sizeof_CellEntry == 32

HIGH_MEM_THRESHOLD == 64 * GiB
MED_MEM_THRESHOLD == 32 * GiB

\* count * size bytes, for count in units of 2^20 and size in bytes: the units
\* of memory they take.
ArrayUnits(count, size) == count * size * 8

\* (estimated_structures / divisor) * sizeof(CellEntry), for a divisor that
\* divides 256.
CellUnits(estimated_structures, divisor) ==
    (ArrayUnits(estimated_structures, sizeof_CellEntry)) \div divisor

\* (1ULL << bits) * sizeof(uint32_t), for bits >= 15.
RECURSIVE HashUnits(_)
HashUnits(bits) == IF bits = 15 THEN 1 ELSE 2 * HashUnits(bits - 1)

high_perf_mem(estimated_structures) ==
    ArrayUnits(estimated_structures, sizeof_StructureFast)
        + CellUnits(estimated_structures, 1) + HashUnits(27)

balanced_mem(estimated_structures) ==
    ArrayUnits(estimated_structures, sizeof_StructureFast)
        + CellUnits(estimated_structures, 4) + HashUnits(26)

\* low_mem_need before the loop.
low_mem_need(estimated_structures) ==
    ArrayUnits(estimated_structures, sizeof_StructureCompact)
        + CellUnits(estimated_structures, 16) + HashUnits(24)

\* low_mem_need as the loop computes it again for a multiplier.
low_mem_need_again(estimated_structures, multiplier) ==
    ArrayUnits(estimated_structures, sizeof_StructureCompact)
        + CellUnits(estimated_structures, multiplier * multiplier)
        + HashUnits(22)

\* (g_system_memory * 80) / 100.
available(system_memory) == (system_memory * 80) \div 100

\* A faulty variant of the loop below that tests the need of the HIGH tier.
RECURSIVE SafetyLoop_high_need(_, _, _, _)
SafetyLoop_high_need(need, multiplier, estimated_structures, system_memory) ==
    IF high_perf_mem(estimated_structures) > available(system_memory)
       /\ multiplier < 16
    THEN SafetyLoop_high_need(need, 2 * multiplier, estimated_structures,
                              system_memory)
    ELSE multiplier

\* "Safety check: if even low-mem won't fit, increase multiplier": the
\* multiplier the loop ends with.
RECURSIVE SafetyLoop(_, _, _, _)
SafetyLoop(need, multiplier, estimated_structures, system_memory) ==
    IF need > available(system_memory) /\ multiplier < 16
    THEN SafetyLoop(low_mem_need_again(estimated_structures, 2 * multiplier),
                    2 * multiplier, estimated_structures, system_memory)
    ELSE multiplier

\* detect_and_configure: g_mode and g_cell_multiplier on its return.
detect_and_configure(estimated_structures, system_memory) ==
    LET tier ==
            IF available(system_memory) >= high_perf_mem(estimated_structures)
               /\ system_memory >= HIGH_MEM_THRESHOLD
            THEN <<"HIGH", 1>>
            ELSE IF available(system_memory) >= balanced_mem(estimated_structures)
                    /\ system_memory >= MED_MEM_THRESHOLD
            THEN <<"BALANCED", 2>>
            ELSE <<"LOW", 4>>
    IN  << tier[1],
           SafetyLoop(low_mem_need(estimated_structures), tier[2],
                      estimated_structures, system_memory) >>

\* The physical memories of the runs: 8, 32 and 64 GiB.  The input files of
\* the runs hold a few lines: their estimated count is less than one unit of
\* points and changes no comparison of detect_and_configure for these
\* memories.
SystemMemories == { 8 * GiB, 32 * GiB, 64 * GiB }

(***************************************************************************)
(* The program state.                                                      *)
(***************************************************************************)
VARIABLES
    g_system_memory,
    lines,              \* the lines of the input file parse_file has still
                        \* to read
    pc,                 \* where main is
    exit_code,          \* main's return value, -1 while it runs
    g_mode,
    g_cell_multiplier,
    radius,
    num_threads,
    g_structures,
    g_cells,
    g_cells_count,
    g_hash_table,
    g_hash_table_size,
    g_cell_size,
    g_total_cells,
    g_processed_cells,
    output,             \* the output file: its header, its group blocks and
                        \* its summary.  The blocks are kept per writing
                        \* thread, each thread's in the order written; the
                        \* order in which blocks of different threads lie in
                        \* the file is not kept.
    output_lock,        \* -1 when free, else the thread id of the holder
    g_progress_lock,    \* likewise
    mi,                 \* the loop variable i of main's create and join loops
    work,               \* work[t]: the ThreadWork of worker t
    wpc,                \* wpc[t]: where worker t is
    wcell,              \* wcell[t]: the loop variable i of worker_thread
    wpending,           \* wpending[t]: the groups the running
                        \* find_groups_in_cell call has still to output
    total_3,
    total_4,
    file_access,        \* what the file system answers for the input path:
                        \* "ok", "missing" or "unreadable"
    heap,               \* heap[b]: the state of the heap block b
    g_done,             \* the flag main sets for the progress thread
    ptpc,               \* where the progress thread is
    probe               \* the arguments and result of one function call, for
                        \* the properties of single functions

vars == << g_system_memory, lines, pc, exit_code, g_mode, g_cell_multiplier, radius, num_threads,
           g_structures, g_cells, g_cells_count, g_hash_table, g_hash_table_size,
           g_cell_size, g_total_cells, g_processed_cells, output, output_lock,
           g_progress_lock, mi, work, wpc, wcell, wpending, total_3, total_4,
           file_access, heap, g_done, ptpc, probe >>

progress_vars == << g_done, ptpc >>
config_vars == << g_system_memory, g_mode, g_cell_multiplier, radius,
                 num_threads >>
index_vars == << g_structures, g_cells, g_cells_count, g_hash_table,
                 g_hash_table_size, g_cell_size, g_total_cells >>
worker_vars == << work, wpc, wcell, wpending >>

Threads == UNION { 0..(n - 1) : n \in ThreadCounts }

\* The lines of the pool in a fixed order.
LineOrder ==
    << <<-1, -1>>, <<0, 0>>, <<2, 0>>, <<1, 2>>, Malformed >>

\* The input files.  build_spatial_index sorts the points and qsort may leave
\* equal keys in any order, so the files are taken up to the order of their
\* lines.  A varied file has up to MaxVaried lines of the pool.
VariedFiles ==
    UNION { { [i \in 1..n |-> LineOrder[f[i]]] :
                f \in { g \in [1..n -> 1..Len(LineOrder)] :
                          \A i \in 1..n, j \in 1..n : i < j => g[i] <= g[j] } } :
            n \in 0..MaxVaried }

\* A dense file repeats one point up to MaxLines times: the clusters that fill
\* the neighbor buffer and the candidate array.
DenseFiles ==
    { [i \in 1..n |-> p] : n \in (MaxVaried + 1)..MaxLines, p \in PointPool }

InputFiles == VariedFiles \cup DenseFiles

\* The index as the workers read it.
Index ==
    [structures |-> g_structures,
     cells |-> g_cells,
     cells_count |-> g_cells_count,
     hash_table |-> g_hash_table,
     hash_table_size |-> g_hash_table_size,
     cell_size |-> g_cell_size,
     mode |-> g_mode,
     cell_multiplier |-> g_cell_multiplier]

\* No output file yet.
NoFile ==
    [created |-> FALSE, header |-> <<>>, blocks |-> [t \in Threads |-> <<>>],
     summary |-> <<>>]

NoWork ==
    [thread_id |-> 0, num_threads |-> 0, radius_sq |-> 0, neighbors_buf_size |-> 0,
     groups_found_3 |-> 0, groups_found_4 |-> 0, cells_processed |-> 0]

\* The heap blocks of a run: the point array, the cell array, the hash table,
\* main's threads and work arrays, and each worker's neighbor buffer.
StructuresBlock == <<"g_structures", 0>>
CellsBlock == <<"g_cells", 0>>
HashTableBlock == <<"g_hash_table", 0>>
ThreadsBlock == <<"threads", 0>>
WorkBlock == <<"work", 0>>
BufBlock(t) == <<"neighbors_buf", t>>
\* The larger point array ensure_capacity asks realloc for.
GrownBlock == <<"g_structures grown", 0>>

Blocks ==
    { StructuresBlock, GrownBlock, CellsBlock, HashTableBlock, ThreadsBlock,
      WorkBlock }
        \cup { BufBlock(t) : t \in Threads }

\* Nothing is allocated.  A block is "unallocated" (its pointer is NULL),
\* "failed" (the allocation returned NULL), "allocated", "freed", or
\* "freed_twice".
NoHeap == [b \in Blocks |-> "unallocated"]

\* malloc, calloc: the block is there, or NULL came back.
Alloc(h, b, ok) == [h EXCEPT ![b] = IF ok THEN "allocated" ELSE "failed"]

\* free(p): nothing for NULL; a pointer that was freed before and not set to
\* NULL is freed a second time.
Free(h, b) ==
    [h EXCEPT ![b] = IF @ = "allocated" THEN "freed"
                     ELSE IF @ = "freed" THEN "freed_twice"
                     ELSE @]

\* cleanup().
cleanup(h) == Free(Free(Free(h, StructuresBlock), CellsBlock), HashTableBlock)

RECURSIVE RoundUpToPow2(_, _)
\* "Round up to power of 2": the loop from p2.
RoundUpToPow2(p2, cap) == IF p2 < cap THEN RoundUpToPow2(2 * p2, cap) ELSE p2

\* preallocate_structures: the capacity for an estimated count.
PreallocCapacity(estimated_count) ==
    LET cap == (estimated_count * 11) \div 10
    IN  RoundUpToPow2(1, IF cap < MinCapacity THEN MinCapacity ELSE cap)

\* The estimated counts of a file of n lines: file_size / AVG_BYTES_PER_LINE
\* for lines of 8 bytes (the shortest that hold a point) and of 35 bytes.
EstimatedCounts(n) == { (8 * n) \div 35, n }

RECURSIVE GrowthPoints(_, _)
\* The counts at which ensure_capacity has to grow the array while n points
\* are stored, from the capacity cap on: it doubles the capacity each time.
GrowthPoints(cap, n) ==
    IF cap >= n THEN {} ELSE {cap} \cup GrowthPoints(2 * cap, n)

\* No function call is being looked at.
NoProbe == [op |-> "none"]

\* The state at the start of main, the input file and the probe apart.
InitProgram ==
    /\ heap = NoHeap
    /\ pc = "start"
    /\ exit_code = -1
    /\ g_system_memory = 0
    /\ g_mode = "LOW"
    /\ g_cell_multiplier = 4
    /\ radius = 0
    /\ num_threads = 0
    /\ g_structures = <<>>
    /\ g_cells = <<>>
    /\ g_cells_count = 0
    /\ g_hash_table = <<>>
    /\ g_hash_table_size = 0
    /\ g_cell_size = 0
    /\ g_total_cells = 0
    /\ g_processed_cells = 0
    /\ output = NoFile
    /\ output_lock = -1
    /\ g_progress_lock = -1
    /\ mi = 0
    /\ work = [t \in Threads |-> NoWork]
    /\ wpc = [t \in Threads |-> "none"]
    /\ wcell = [t \in Threads |-> 0]
    /\ wpending = [t \in Threads |-> <<>>]
    /\ total_3 = 0
    /\ total_4 = 0
    /\ g_done = FALSE
    /\ ptpc = "none"

\* The file system has the input file, with some lines in it, or it has no
\* such file, or one the process may not read.
Init ==
    /\ \/ file_access = "ok" /\ lines \in InputFiles
       \/ file_access \in {"missing", "unreadable"} /\ lines = <<>>
    /\ probe = NoProbe
    /\ InitProgram

(***************************************************************************)
(* main.                                                                   *)
(***************************************************************************)
\* The prompts and detect_and_configure: the tier, the radius and the number
\* of threads are set.  When stat fails for the path entered, main returns 1
\* before all of them; stat does not fail for a file that is there and that
\* the process may not read.
Configure ==
    /\ pc = "start"
    /\ IF file_access = "missing"
       THEN /\ pc' = "exit"
            /\ exit_code' = 1
            /\ UNCHANGED config_vars
       ELSE /\ \E system_memory \in SystemMemories, r \in Radii, n \in ThreadCounts :
                 \E tier \in { detect_and_configure(0, system_memory) } :
                    /\ g_system_memory' = system_memory
                    /\ g_mode' = tier[1]
                    /\ g_cell_multiplier' = tier[2]
                    /\ radius' = r
                    /\ num_threads' = n
            /\ pc' = "parse"
            /\ UNCHANGED exit_code
    /\ UNCHANGED << progress_vars, probe, file_access, heap, lines, index_vars, g_processed_cells, output,
                    output_lock, g_progress_lock, mi, worker_vars, total_3, total_4 >>

\* A faulty variant of the step below in which main goes on to
\* build_spatial_index whatever parse_file returns.
ParseFile_no_count_check ==
    /\ pc = "parse"
    /\ lines' = <<>>
    /\ g_structures' = ParsedStructures(lines, UseFast(g_mode))
    /\ pc' = "build"
    /\ heap' = Alloc(heap, StructuresBlock, TRUE)
    /\ UNCHANGED << progress_vars, probe, file_access, exit_code, config_vars, g_cells,
                    g_cells_count, g_hash_table,
                    g_hash_table_size, g_cell_size, g_total_cells,
                    g_processed_cells, output, output_lock, g_progress_lock, mi,
                    worker_vars, total_3, total_4 >>

\* parse_file, which reads the file to its end, and main's exit (after
\* cleanup) when it returns 0: the file cannot be opened or is empty, the
\* point array cannot be allocated or grown, or no line holds a point.
ParseFile ==
    /\ pc = "parse"
    /\ lines' = <<>>
    /\ IF file_access # "ok" \/ Len(lines) = 0
       THEN /\ g_structures' = <<>>
            /\ heap' = cleanup(heap)
            /\ pc' = "exit"
            /\ exit_code' = 1
       ELSE \E estimated_count \in EstimatedCounts(Len(lines)), allocated \in BOOLEAN :
              LET parsed == ParsedStructures(lines, UseFast(g_mode))
                  grow_at == GrowthPoints(PreallocCapacity(estimated_count),
                                          Len(parsed))
              IN  IF ~allocated
                  THEN /\ g_structures' = <<>>
                       /\ heap' = cleanup(Alloc(heap, StructuresBlock, FALSE))
                       /\ pc' = "exit"
                       /\ exit_code' = 1
                  ELSE \/ /\ \E count \in grow_at :
                               g_structures' = SubSeq(parsed, 1, count)
                          /\ heap' = cleanup(Alloc(Alloc(heap, StructuresBlock, TRUE),
                                                   GrownBlock, FALSE))
                          /\ pc' = "exit"
                          /\ exit_code' = 1
                       \/ /\ g_structures' = parsed
                          /\ IF Len(parsed) = 0
                             THEN /\ heap' = cleanup(Alloc(heap, StructuresBlock, TRUE))
                                  /\ pc' = "exit"
                                  /\ exit_code' = 1
                             ELSE /\ heap' = Alloc(heap, StructuresBlock, TRUE)
                                  /\ pc' = "build"
                                  /\ UNCHANGED exit_code
    /\ UNCHANGED << progress_vars, probe, file_access, config_vars, g_cells,
                    g_cells_count, g_hash_table,
                    g_hash_table_size, g_cell_size, g_total_cells,
                    g_processed_cells, output, output_lock, g_progress_lock, mi,
                    worker_vars, total_3, total_4 >>

\* build_spatial_index, and main's exit when it returns false.  g_cell_size is
\* set first; with no structures the function returns false before it sorts.
BuildSpatialIndex ==
    /\ pc = "build"
    /\ IF Len(g_structures) = 0
       THEN /\ g_cell_size' = radius * g_cell_multiplier
            /\ pc' = "exit"
            /\ exit_code' = 1
            /\ UNCHANGED << g_structures, g_cells, g_cells_count, g_hash_table,
                            g_hash_table_size, g_total_cells >>
            /\ heap' = cleanup(heap)
       ELSE \/ /\ \E arr \in SortedStructures(g_structures, g_mode,
                                               radius * g_cell_multiplier) :
                    \E ix \in { IndexOf(arr, g_mode, g_cell_multiplier,
                                        radius * g_cell_multiplier) } :
                       /\ g_structures' = ix.structures
                       /\ g_cells' = ix.cells
                       /\ g_cells_count' = ix.cells_count
                       /\ g_hash_table' = ix.hash_table
                       /\ g_hash_table_size' = ix.hash_table_size
                       /\ g_cell_size' = ix.cell_size
                       /\ g_total_cells' = ix.cells_count
               /\ heap' = Alloc(Alloc(heap, CellsBlock, TRUE), HashTableBlock, TRUE)
               /\ pc' = "open"
               /\ UNCHANGED exit_code
            \* malloc of g_cells fails: return false, main calls cleanup.
            \/ /\ g_cell_size' = radius * g_cell_multiplier
               /\ heap' = cleanup(Alloc(heap, CellsBlock, FALSE))
               /\ pc' = "exit"
               /\ exit_code' = 1
               /\ UNCHANGED << g_structures, g_cells, g_cells_count,
                               g_hash_table, g_hash_table_size, g_total_cells >>
            \* calloc of g_hash_table fails: free(g_cells) leaves the pointer
            \* in g_cells, and cleanup frees it again.  The second free is
            \* undefined: the process goes on to return 1 or is aborted
            \* (status 134).
            \/ /\ g_cell_size' = radius * g_cell_multiplier
               /\ heap' = cleanup(Free(Alloc(Alloc(heap, CellsBlock, TRUE),
                                             HashTableBlock, FALSE),
                                       CellsBlock))
               /\ pc' = "exit"
               /\ exit_code' \in {1, 134}
               /\ UNCHANGED << g_structures, g_cells, g_cells_count,
                               g_hash_table, g_hash_table_size, g_total_cells >>
    /\ UNCHANGED << progress_vars, probe, file_access, lines, config_vars, g_processed_cells, output,
                    output_lock, g_progress_lock, mi, worker_vars, total_3, total_4 >>

\* The output file is created and its header written, the arrays threads and
\* work are allocated and the progress thread is created.  When the file
\* cannot be created, or one of the two arrays cannot be allocated, main calls
\* cleanup and returns 1.
OpenOutput ==
    /\ pc = "open"
    /\ \/ /\ heap' = cleanup(heap)
          /\ pc' = "exit"
          /\ exit_code' = 1
          /\ UNCHANGED << output, mi, ptpc >>
       \/ /\ output' = [output EXCEPT !.created = TRUE,
                                       !.header = << Len(g_structures) >>]
          /\ \E threads_ok \in BOOLEAN, work_ok \in BOOLEAN :
               IF threads_ok /\ work_ok
               THEN /\ heap' = Alloc(Alloc(heap, ThreadsBlock, TRUE),
                                     WorkBlock, TRUE)
                    /\ pc' = "create"
                    /\ mi' = 0
                    /\ ptpc' = "poll"
                    /\ UNCHANGED exit_code
               ELSE /\ heap' = cleanup(Alloc(Alloc(heap, ThreadsBlock, threads_ok),
                                             WorkBlock, work_ok))
                    /\ pc' = "exit"
                    /\ exit_code' = 1
                    /\ UNCHANGED << mi, ptpc >>
    /\ UNCHANGED << g_done, probe, file_access, lines, config_vars, index_vars, g_processed_cells,
                    output_lock, g_progress_lock, worker_vars, total_3, total_4 >>

RECURSIVE FreeBufs(_, _)
\* for (j = 0; j < i; j++) free(work[j].neighbors_buf).
FreeBufs(h, i) == IF i = 0 THEN h ELSE Free(FreeBufs(h, i - 1), BufBlock(i - 1))

\* One round of the loop that fills work[i] and creates worker i.  When the
\* neighbor buffer cannot be allocated, main frees the buffers of the workers
\* created before, calls cleanup and returns 1; a worker created before that
\* has not returned goes on reading the freed blocks until the process is
\* gone, which is undefined: the process returns 1 or is killed (status 139).
CreateWorker ==
    /\ pc = "create"
    /\ mi < num_threads
    /\ \/ /\ work' = [work EXCEPT ![mi] =
                        [thread_id |-> mi,
                         num_threads |-> num_threads,
                         radius_sq |-> radius * radius,
                         neighbors_buf_size |-> NeighborBufSize(g_mode),
                         groups_found_3 |-> 0,
                         groups_found_4 |-> 0,
                         cells_processed |-> 0]]
          /\ heap' = Alloc(heap, BufBlock(mi), TRUE)
          /\ wpc' = [wpc EXCEPT ![mi] = "loop"]
          /\ wcell' = [wcell EXCEPT ![mi] = mi]
          /\ IF mi + 1 < num_threads
             THEN /\ mi' = mi + 1
                  /\ UNCHANGED pc
             ELSE /\ mi' = 0
                  /\ pc' = "join"
          /\ UNCHANGED exit_code
       \/ /\ heap' = cleanup(FreeBufs(Alloc(heap, BufBlock(mi), FALSE), mi))
          /\ pc' = "exit"
          /\ exit_code' \in IF \E j \in 0..(mi - 1) : wpc[j] # "done"
                             THEN {1, 139} ELSE {1}
          /\ UNCHANGED << work, wpc, wcell, mi >>
    /\ UNCHANGED << progress_vars, probe, file_access, lines, config_vars, index_vars, g_processed_cells,
                    output, output_lock, g_progress_lock, wpending, total_3, total_4 >>

\* A faulty variant of the step below that does not wait for worker i to
\* return before it adds the counts.
JoinWorker_no_wait ==
    /\ pc = "join"
    /\ mi < num_threads
    /\ total_3' = total_3 + work[mi].groups_found_3
    /\ total_4' = total_4 + work[mi].groups_found_4
    /\ wpc' = [wpc EXCEPT ![mi] = IF @ = "done" THEN "joined" ELSE @]
    /\ IF mi + 1 < num_threads
       THEN /\ mi' = mi + 1
            /\ UNCHANGED pc
       ELSE /\ mi' = 0
            /\ pc' = "summary"
    /\ heap' = Free(heap, BufBlock(mi))
    /\ UNCHANGED << progress_vars, probe, file_access, lines, exit_code, config_vars,
                    index_vars, g_processed_cells, output, output_lock,
                    g_progress_lock, work, wcell, wpending >>

\* One round of the join loop: worker i has returned, its counts are added and
\* its neighbor buffer freed.
JoinWorker ==
    /\ pc = "join"
    /\ mi < num_threads
    /\ wpc[mi] = "done"
    /\ total_3' = total_3 + work[mi].groups_found_3
    /\ total_4' = total_4 + work[mi].groups_found_4
    /\ wpc' = [wpc EXCEPT ![mi] = "joined"]
    /\ IF mi + 1 < num_threads
       THEN /\ mi' = mi + 1
            /\ UNCHANGED pc
       ELSE /\ mi' = 0
            /\ pc' = "summary"
    /\ heap' = Free(heap, BufBlock(mi))
    /\ UNCHANGED << progress_vars, probe, file_access, lines, exit_code, config_vars, index_vars, g_processed_cells,
                    output, output_lock, g_progress_lock, work, wcell, wpending >>

\* g_done = 1, after the join loop.
SetDone ==
    /\ pc = "summary"
    /\ ~g_done
    /\ g_done' = TRUE
    /\ UNCHANGED << ptpc, probe, file_access, heap, lines, pc, exit_code,
                    config_vars, index_vars, g_processed_cells, output,
                    output_lock, g_progress_lock, mi, worker_vars, total_3,
                    total_4 >>

\* pthread_join(progress_tid) has returned: the summary is written, threads
\* and work are freed, cleanup is called and main returns 0.
WriteSummary ==
    /\ pc = "summary"
    /\ g_done
    /\ ptpc = "ended"
    /\ output' = [output EXCEPT !.summary = << total_3, total_4 >>]
    /\ heap' = cleanup(Free(Free(heap, ThreadsBlock), WorkBlock))
    /\ pc' = "exit"
    /\ exit_code' = 0
    /\ UNCHANGED << progress_vars, probe, file_access, lines, config_vars, index_vars, g_processed_cells, output_lock,
                    g_progress_lock, mi, worker_vars, total_3, total_4 >>

(***************************************************************************)
(* worker_thread.  A worker takes no step once main has returned: the      *)
(* process is gone.                                                        *)
(***************************************************************************)
\* The loop test of worker_thread and, when it passes, find_groups_in_cell up
\* to its first call of output_group.
WorkerCell(t) ==
    /\ pc # "exit"
    /\ wpc[t] = "loop"
    /\ IF wcell[t] < g_cells_count
       THEN \E groups \in { find_groups_in_cell(Index, g_cells[wcell[t] + 1],
                                                work[t].neighbors_buf_size,
                                                work[t].radius_sq) } :
               /\ wpending' = [wpending EXCEPT ![t] = groups]
               /\ wpc' = [wpc EXCEPT ![t] = IF groups = <<>> THEN "progress"
                                            ELSE "output"]
       ELSE /\ wpc' = [wpc EXCEPT ![t] = "done"]
            /\ UNCHANGED wpending
    /\ UNCHANGED << progress_vars, probe, file_access, heap, lines, pc, exit_code, config_vars, index_vars,
                    g_processed_cells, output, output_lock, g_progress_lock, mi,
                    work, wcell, total_3, total_4 >>

\* A faulty variant of the step below that does not wait for the lock to be
\* free.
OutputLock_no_wait(t) ==
    /\ pc # "exit"
    /\ wpc[t] = "output"
    /\ output_lock' = t
    /\ wpc' = [wpc EXCEPT ![t] = "write"]
    /\ UNCHANGED << progress_vars, probe, file_access, heap, lines, pc, exit_code, config_vars, index_vars,
                    g_processed_cells, output, g_progress_lock, mi, work, wcell,
                    wpending, total_3, total_4 >>

\* output_group: pthread_mutex_lock(lock).
OutputLock(t) ==
    /\ pc # "exit"
    /\ wpc[t] = "output"
    /\ output_lock = -1
    /\ output_lock' = t
    /\ wpc' = [wpc EXCEPT ![t] = "write"]
    /\ UNCHANGED << progress_vars, probe, file_access, heap, lines, pc, exit_code, config_vars, index_vars,
                    g_processed_cells, output, g_progress_lock, mi, work, wcell,
                    wpending, total_3, total_4 >>

\* output_group: the group block is written and the lock released; back in
\* find_groups_in_cell the worker's counter of groups of that size goes up.
OutputWrite(t) ==
    /\ pc # "exit"
    /\ wpc[t] = "write"
    /\ output_lock = t
    /\ LET group == Head(wpending[t])
       IN  /\ output' = [output EXCEPT !.blocks[t] = Append(@, group)]
           /\ work' = [work EXCEPT
                         ![t].groups_found_3 =
                             IF Len(group) = 3 THEN @ + 1 ELSE @,
                         ![t].groups_found_4 =
                             IF Len(group) = 4 THEN @ + 1 ELSE @]
    /\ output_lock' = -1
    /\ wpending' = [wpending EXCEPT ![t] = Tail(@)]
    /\ wpc' = [wpc EXCEPT ![t] = IF Tail(wpending[t]) = <<>> THEN "progress"
                                 ELSE "output"]
    /\ UNCHANGED << progress_vars, probe, file_access, heap, lines, pc, exit_code, config_vars, index_vars,
                    g_processed_cells, g_progress_lock, mi, wcell, total_3, total_4 >>

\* worker_thread: pthread_mutex_lock(&g_progress_lock).
ProgressLock(t) ==
    /\ pc # "exit"
    /\ wpc[t] = "progress"
    /\ g_progress_lock = -1
    /\ g_progress_lock' = t
    /\ wpc' = [wpc EXCEPT ![t] = "count"]
    /\ UNCHANGED << progress_vars, probe, file_access, heap, lines, pc, exit_code, config_vars, index_vars,
                    g_processed_cells, output, output_lock, mi, work, wcell,
                    wpending, total_3, total_4 >>

\* A faulty variant of the step below that advances i by one cell instead of
\* num_threads.
ProgressCount_stride_one(t) ==
    /\ pc # "exit"
    /\ wpc[t] = "count"
    /\ g_progress_lock = t
    /\ g_processed_cells' = g_processed_cells + 1
    /\ g_progress_lock' = -1
    /\ work' = [work EXCEPT ![t].cells_processed = @ + 1]
    /\ wcell' = [wcell EXCEPT ![t] = @ + 1]
    /\ wpc' = [wpc EXCEPT ![t] = "loop"]
    /\ UNCHANGED << progress_vars, probe, file_access, heap, lines, pc, exit_code, config_vars, index_vars, output,
                    output_lock, mi, wpending, total_3, total_4 >>

\* A faulty variant of the step below that counts the cell twice.
ProgressCount_counts_twice(t) ==
    /\ pc # "exit"
    /\ wpc[t] = "count"
    /\ g_progress_lock = t
    /\ g_processed_cells' = g_processed_cells + 2
    /\ g_progress_lock' = -1
    /\ work' = [work EXCEPT ![t].cells_processed = @ + 1]
    /\ wcell' = [wcell EXCEPT ![t] = @ + work[t].num_threads]
    /\ wpc' = [wpc EXCEPT ![t] = "loop"]
    /\ UNCHANGED << progress_vars, probe, file_access, heap, lines, pc, exit_code, config_vars, index_vars, output,
                    output_lock, mi, wpending, total_3, total_4 >>

\* worker_thread: g_processed_cells++, unlock, cells_processed++, i += num_threads.
ProgressCount(t) ==
    /\ pc # "exit"
    /\ wpc[t] = "count"
    /\ g_progress_lock = t
    /\ g_processed_cells' = g_processed_cells + 1
    /\ g_progress_lock' = -1
    /\ work' = [work EXCEPT ![t].cells_processed = @ + 1]
    /\ wcell' = [wcell EXCEPT ![t] = @ + work[t].num_threads]
    /\ wpc' = [wpc EXCEPT ![t] = "loop"]
    /\ UNCHANGED << progress_vars, probe, file_access, heap, lines, pc, exit_code, config_vars, index_vars, output,
                    output_lock, mi, wpending, total_3, total_4 >>

Worker(t) ==
    \/ WorkerCell(t)
    \/ OutputLock(t)
    \/ OutputWrite(t)
    \/ ProgressLock(t)
    \/ ProgressCount(t)

(***************************************************************************)
(* progress_thread.  It takes no step once main has returned.              *)
(***************************************************************************)
\* The holder of g_progress_lock when the progress thread holds it.
ProgressThread == -2

\* The loop test finds g_done set: the last progress line is printed and the
\* thread returns.
ProgressExit ==
    /\ pc # "exit"
    /\ ptpc = "poll"
    /\ g_done
    /\ ptpc' = "ended"
    /\ UNCHANGED << g_done, probe, file_access, heap, lines, pc, exit_code,
                    config_vars, index_vars, g_processed_cells, output,
                    output_lock, g_progress_lock, mi, worker_vars, total_3,
                    total_4 >>

\* The loop test finds g_done clear: the thread goes on to
\* pthread_mutex_lock(&g_progress_lock).
ProgressTest ==
    /\ pc # "exit"
    /\ ptpc = "poll"
    /\ ~g_done
    /\ ptpc' = "lock"
    /\ UNCHANGED << g_done, probe, file_access, heap, lines, pc, exit_code,
                    config_vars, index_vars, g_processed_cells, output,
                    output_lock, g_progress_lock, mi, worker_vars, total_3,
                    total_4 >>

\* pthread_mutex_lock(&g_progress_lock) returns.
ProgressThreadLock ==
    /\ pc # "exit"
    /\ ptpc = "lock"
    /\ g_progress_lock = -1
    /\ g_progress_lock' = ProgressThread
    /\ ptpc' = "read"
    /\ UNCHANGED << g_done, probe, file_access, heap, lines, pc, exit_code,
                    config_vars, index_vars, g_processed_cells, output,
                    output_lock, mi, worker_vars, total_3, total_4 >>

\* A faulty variant of the step below that does not release the lock.
ProgressThreadUnlock_keeps_lock ==
    /\ pc # "exit"
    /\ ptpc = "read"
    /\ g_progress_lock = ProgressThread
    /\ ptpc' = "poll"
    /\ UNCHANGED << g_progress_lock, g_done, probe, file_access, heap, lines, pc,
                    exit_code, config_vars, index_vars, g_processed_cells,
                    output, output_lock, mi, worker_vars, total_3, total_4 >>

\* The two counters are read, the lock is released, the progress line is
\* printed and the thread sleeps, up to the next loop test.
ProgressThreadUnlock ==
    /\ pc # "exit"
    /\ ptpc = "read"
    /\ g_progress_lock = ProgressThread
    /\ g_progress_lock' = -1
    /\ ptpc' = "poll"
    /\ UNCHANGED << g_done, probe, file_access, heap, lines, pc, exit_code,
                    config_vars, index_vars, g_processed_cells, output,
                    output_lock, mi, worker_vars, total_3, total_4 >>

\* One round of the loop of progress_thread, which changes nothing but the
\* holder of g_progress_lock.
ProgressRound ==
    \/ ProgressTest
    \/ ProgressThreadLock
    \/ ProgressThreadUnlock

\* The program, the rounds of the progress thread's loop left out.
Next ==
    \/ Configure
    \/ ParseFile
    \/ BuildSpatialIndex
    \/ OpenOutput
    \/ CreateWorker
    \/ JoinWorker
    \/ SetDone
    \/ ProgressExit
    \/ WriteSummary
    \/ \E t \in Threads : Worker(t)

Spec == Init /\ [][Next]_vars

(***************************************************************************)
(* The program with the rounds of the progress thread, under fair          *)
(* scheduling, on two input files.                                         *)
(***************************************************************************)
\* The four points of the pool, which lie in two cells in every tier, and the
\* three of them that lie in one cell.
FairFiles ==
    { << <<-1, -1>>, <<0, 0>>, <<2, 0>>, <<1, 2>> >>,
      << <<0, 0>>, <<2, 0>>, <<1, 2>> >> }

FairInit ==
    /\ file_access = "ok"
    /\ lines \in FairFiles
    /\ probe = NoProbe
    /\ InitProgram

FairNext == Next \/ ProgressRound

\* The steps of main once all workers are created.
MainAfterCreate ==
    \/ JoinWorker
    \/ SetDone
    \/ WriteSummary

\* Worker t does not stay at its loop test for ever.  WorkerCell(t) can be
\* taken exactly when the process runs and the worker is at its loop test,
\* and taking it leaves the loop test, so this is WF_vars(WorkerCell(t)).
WorkerCellFair(t) == []<>(pc = "exit" \/ wpc[t] # "loop")

\* Every thread that can take a step takes one in the end: main, the workers
\* and the progress thread are threads of the operating system.  A worker
\* that waits for g_progress_lock gets it if the lock is free again and
\* again: the progress thread holds it for two reads and sleeps half a second
\* between two rounds.
Fairness ==
    /\ WF_vars(MainAfterCreate)
    /\ WF_vars(ProgressRound \/ ProgressExit)
    /\ \A t \in Threads :
          /\ WorkerCellFair(t)
          /\ WF_vars(OutputLock(t))
          /\ WF_vars(OutputWrite(t))
          /\ SF_vars(ProgressLock(t))
          /\ WF_vars(ProgressCount(t))

FairSpec == FairInit /\ [][FairNext]_vars /\ Fairness

(***************************************************************************)
(* Reading the output file and the built index.                            *)
(***************************************************************************)
\* The group blocks written so far: (thread, position in the thread's blocks).
EmittedBlocks ==
    UNION { { <<t, n>> : n \in 1..Len(output.blocks[t]) } : t \in Threads }

GroupAt(b) == output.blocks[b[1]][b[2]]

\* The groups written so far.
EmittedGroups == { GroupAt(b) : b \in EmittedBlocks }

\* The point indices of a group.
Members(group) == { group[i] : i \in 1..Len(group) }

\* The number of points, and their indices.
PointCount == Len(g_structures)
PointIndices == 0..(PointCount - 1)

\* The coordinates of point idx of the sorted array.
PointAt(idx) == << g_structures[idx + 1].x, g_structures[idx + 1].z >>

\* The squared distance of two points.
SquaredDistance(p, q) ==
    (p[1] - q[1]) * (p[1] - q[1]) + (p[2] - q[2]) * (p[2] - q[2])

RECURSIVE SumOver(_, _)
\* The sum of coordinate c over the point indices S, each index counted once.
SumOver(S, c) ==
    IF S = {} THEN 0
    ELSE LET i == CHOOSE j \in S : TRUE
         IN  PointAt(i)[c] + SumOver(S \ {i}, c)

\* The centroid predicate for the k points with indices S and radius r, in
\* exact integer arithmetic: |k*p - sum|^2 <= k^2 * r^2 for every member p.
CentroidPredicate(S, r) ==
    LET k == Cardinality(S)
        sx == SumOver(S, 1)
        sz == SumOver(S, 2)
    IN  \A i \in S :
           (k * PointAt(i)[1] - sx) * (k * PointAt(i)[1] - sx)
             + (k * PointAt(i)[2] - sz) * (k * PointAt(i)[2] - sz)
           <= k * k * r * r

\* Every pair of the points S lies within 2r.
PairwiseWithin(S, r) ==
    \A i \in S, j \in S : SquaredDistance(PointAt(i), PointAt(j)) <= 4 * r * r

\* The 3- and 4-subsets of the point indices.
Subsets34 == { S \in SUBSET PointIndices : Cardinality(S) \in {3, 4} }

\* The run has ended with the summary written.
Finished == pc = "exit" /\ exit_code = 0

(***************************************************************************)
(* C1.  No group is emitted twice.                                         *)
(***************************************************************************)
\* C1: over a whole run, for every input, radius, tier and thread count, no
\* two group blocks of the output file consist of the same set of point
\* indices.
C1_NoGroupEmittedTwice ==
    \A b1 \in EmittedBlocks, b2 \in EmittedBlocks :
        b1 # b2 => Members(GroupAt(b1)) # Members(GroupAt(b2))

\* A finished run of two workers that both wrote groups, two of which share a
\* point.
C1_Witness ==
    /\ Finished
    /\ num_threads = 2
    /\ \A t \in Threads : output.blocks[t] # <<>>
    /\ \E b1 \in EmittedBlocks, b2 \in EmittedBlocks :
          /\ b1 # b2
          /\ Members(GroupAt(b1)) \cap Members(GroupAt(b2)) # {}

(***************************************************************************)
(* C2.  Completeness.                                                      *)
(***************************************************************************)
\* The smallest index of S: the base the group S is built under.
MinIndex(S) == CHOOSE i \in S : \A j \in S : i <= j

\* The cell of point idx, from its coordinates.
CellOfPoint(idx) ==
    << coord_to_cell(PointAt(idx)[1], g_cell_size),
       coord_to_cell(PointAt(idx)[2], g_cell_size) >>

\* The points in the (2w+1) x (2w+1) cell window around the cell of point idx.
WindowPoints(idx) ==
    LET w == search_range(g_cell_multiplier)
    IN  { i \in PointIndices :
            /\ CellOfPoint(i)[1] - CellOfPoint(idx)[1] \in (-w)..w
            /\ CellOfPoint(i)[2] - CellOfPoint(idx)[2] \in (-w)..w }

\* The neighbor gather of the cell of point idx does not truncate.
GatherFits(idx) == Cardinality(WindowPoints(idx)) <= NeighborBufSize(g_mode)

\* The points that qualify as candidates of base idx.
QualifyingCandidates(idx) ==
    { i \in PointIndices :
        i > idx /\ SquaredDistance(PointAt(idx), PointAt(i)) <= 4 * radius * radius }

\* The candidate array of base idx does not truncate.
CandidatesFit(idx) == Cardinality(QualifyingCandidates(idx)) <= CandCap

\* S is one of the groups in the output file.
IsEmitted(S) == \E group \in EmittedGroups : Members(group) = S

C4_GroupShape ==
    \A group \in EmittedGroups :
        /\ Len(group) \in {3, 4}
        /\ \A m \in 1..Len(group) : group[m] \in PointIndices
        /\ \A m \in 1..Len(group), n \in 1..Len(group) :
              m # n => group[m] # group[n]
        /\ \A m \in 2..Len(group) : group[1] < group[m]

\* A finished run that wrote a group of 3 and a group of 4.
C4_Witness ==
    /\ Finished
    /\ \E g3 \in EmittedGroups : Len(g3) = 3
    /\ \E g4 \in EmittedGroups : Len(g4) = 4

(***************************************************************************)
(* C5.  The result does not depend on the workers.                         *)
(***************************************************************************)
RECURSIVE GroupsOfCellsFrom(_, _, _, _)
\* The groups find_groups_in_cell outputs for the cells c, c+1, ... of the
\* index ix, cell after cell: what one thread alone would write.
GroupsOfCellsFrom(ix, c, max_neighbors, radius_sq) ==
    IF c >= ix.cells_count THEN <<>>
    ELSE find_groups_in_cell(ix, ix.cells[c + 1], max_neighbors, radius_sq)
         \o GroupsOfCellsFrom(ix, c + 1, max_neighbors, radius_sq)

\* How often the group appears in the sequence of groups.
TimesIn(group, groups) ==
    Cardinality({ n \in 1..Len(groups) : groups[n] = group })

\* How often the group appears in the output file.
TimesEmitted(group) ==
    Cardinality({ b \in EmittedBlocks : GroupAt(b) = group })

\* The number of groups of k members in the sequence of groups.
CountOfSize(groups, k) ==
    Cardinality({ n \in 1..Len(groups) : Len(groups[n]) = k })

\* C5: for a fixed built index and radius, a finished run has emitted the
\* same groups, each as often, and reports the same totals of groups of 3 and
\* of 4, whatever the number of workers and however they interleaved: the
\* groups and totals are those of the cells taken one after another, which
\* depend on neither.
C5_SameResultForEveryWorkerCount ==
    Finished =>
        \E groups \in { GroupsOfCellsFrom(Index, 0, NeighborBufSize(g_mode),
                                          radius * radius) } :
            /\ EmittedGroups = { groups[n] : n \in 1..Len(groups) }
            /\ \A group \in EmittedGroups :
                  TimesEmitted(group) = TimesIn(group, groups)
            /\ total_3 = CountOfSize(groups, 3)
            /\ total_4 = CountOfSize(groups, 4)
            /\ output.summary = << total_3, total_4 >>

\* A finished run of two workers over several cells in which both wrote
\* groups.
C5_Witness ==
    /\ Finished
    /\ num_threads = 2
    /\ g_cells_count >= 2
    /\ \A t \in Threads : output.blocks[t] # <<>>
    /\ total_3 + total_4 >= 2

(***************************************************************************)
(* C6.  Tier equivalence.                                                  *)
(***************************************************************************)
\* A group of the index ix read as the multiset of its points' coordinates:
\* the number of members at each coordinate.
CoordinateMultiset(ix, group) ==
    [ p \in { get_coords(ix, group[m]) : m \in 1..Len(group) } |->
        Cardinality({ m \in 1..Len(group) : get_coords(ix, group[m]) = p }) ]

\* The points of this run as parse_file stores them in the given tier.
StructuresFor(mode) ==
    [ i \in 1..PointCount |-> StoredStructure(PointAt(i - 1), UseFast(mode)) ]

\* The indexes build_spatial_index may leave for the same points and radius
\* in the given tier.
IndexesFor(mode, mult) ==
    { IndexOf(arr, mode, mult, radius * mult) :
        arr \in SortedStructures(StructuresFor(mode), mode, radius * mult) }

\* Neither the neighbor buffer nor the candidate array truncates in a run
\* over the index ix: every cell's window holds at most the tier's buffer
\* size, and every point has at most CandCap qualifying candidates.
NothingTruncates(ix) ==
    LET w == search_range(ix.cell_multiplier)
        N == Len(ix.structures)
        cellOf(i) == << coord_to_cell(get_coords(ix, i)[1], ix.cell_size),
                        coord_to_cell(get_coords(ix, i)[2], ix.cell_size) >>
    IN  /\ \A b \in 0..(N - 1) :
              Cardinality({ i \in 0..(N - 1) :
                              /\ cellOf(i)[1] - cellOf(b)[1] \in (-w)..w
                              /\ cellOf(i)[2] - cellOf(b)[2] \in (-w)..w })
                <= NeighborBufSize(ix.mode)
        /\ \A b \in 0..(N - 1) :
              Cardinality({ i \in 0..(N - 1) :
                              i > b /\ dist_sq_idx(ix, b, i) <= 4 * radius * radius })
                <= CandCap

\* The coordinate multisets of the groups a run over the index ix emits.
CoordinateGroupsOf(ix) ==
    LET groups == GroupsOfCellsFrom(ix, 0, NeighborBufSize(ix.mode), radius * radius)
    IN  { CoordinateMultiset(ix, groups[n]) : n \in 1..Len(groups) }

\* The coordinate multisets of the groups in the output file.
EmittedCoordinateGroups ==
    { CoordinateMultiset(Index, group) : group \in EmittedGroups }

\* C6: a finished run in HIGH tier has emitted the same set of groups, each
\* read as the multiset of its points' coordinates, as every run in LOW tier
\* over the same points and radius emits, and a finished run in LOW tier the
\* same as every run in HIGH tier, provided neither the neighbor buffer nor
\* the candidate array truncates in either run.
C6_TierEquivalence ==
    (Finished /\ g_mode \in {"HIGH", "LOW"}) =>
        \A other \in IndexesFor(IF g_mode = "HIGH" THEN "LOW" ELSE "HIGH",
                                IF g_mode = "HIGH" THEN 4 ELSE 1) :
            (NothingTruncates(Index) /\ NothingTruncates(other))
            => EmittedCoordinateGroups = CoordinateGroupsOf(other)

\* A finished HIGH run without truncation that emitted a group of points in
\* different cells, over points that a LOW run without truncation puts in one
\* cell.
C6_Witness ==
    /\ Finished
    /\ g_mode = "HIGH"
    /\ NothingTruncates(Index)
    /\ \E group \in EmittedGroups :
          \E i \in Members(group), j \in Members(group) :
              CellOfPoint(i) # CellOfPoint(j)
    /\ \E other \in IndexesFor("LOW", 4) :
          /\ NothingTruncates(other)
          /\ other.cells_count < g_cells_count

(***************************************************************************)
(* C7.  An input without points.                                           *)
(***************************************************************************)
\* parse_file has run and stored no point.
ParsedNoPoint == pc \notin {"start", "parse"} /\ PointCount = 0

\* C7 as stated: when the input yields zero points the run does not fail, no
\* group is emitted, and the output file's summary reports 0 groups of 3 and
\* 0 groups of 4.
C7_ZeroPointsSummary ==
    (pc = "exit" /\ PointCount = 0) =>
        /\ exit_code = 0
        /\ EmittedBlocks = {}
        /\ output.summary = <<0, 0>>

\* C7, amended: when the input yields zero points, main returns 1 right
\* after parse_file: the index is not built, no worker is created, and no
\* output file, hence no summary, is written.
C7_ZeroPointsFail ==
    ParsedNoPoint =>
        /\ pc = "exit"
        /\ exit_code = 1
        /\ output = NoFile
        /\ g_cells_count = 0
        /\ g_cell_size = 0
        /\ \A t \in Threads : wpc[t] = "none"

\* The run of an input without points has ended.
C7_Witness ==
    /\ ParsedNoPoint
    /\ pc = "exit"
    /\ exit_code = 1
    /\ ~output.created

(***************************************************************************)
(* C8.  All points at one coordinate.                                      *)
(***************************************************************************)
\* The binomial coefficients C(n, 3) and C(n, 4).
Choose3(n) == (n * (n - 1) * (n - 2)) \div 6
Choose4(n) == (n * (n - 1) * (n - 2) * (n - 3)) \div 24

\* All points of the input have the same coordinates.
AllPointsIdentical ==
    \A i \in PointIndices, j \in PointIndices : PointAt(i) = PointAt(j)

\* The number of groups of k members in the output file.
EmittedOfSize(k) == Cardinality({ b \in EmittedBlocks : Len(GroupAt(b)) = k })

\* The run has ended, and not because the output file could not be created
\* or a block could not be allocated after points were stored.
EndedUnhindered == Finished \/ (pc = "exit" /\ PointCount = 0)

\* C8 as stated: when all N points of the input have the same coordinates,
\* the run emits exactly C(N,3) groups of 3 and C(N,4) groups of 4, for every
\* N >= 0.
C8_IdenticalPointsAllSubsets ==
    (EndedUnhindered /\ AllPointsIdentical) =>
        /\ EmittedOfSize(3) = Choose3(PointCount)
        /\ EmittedOfSize(4) = Choose4(PointCount)

\* C8, amended: when all N points of the input have the same coordinates and
\* N - 1 does not exceed the capacity of the candidate array, the run emits
\* every 3-subset and every 4-subset of the points exactly once and its
\* totals are C(N,3) and C(N,4).
C8_IdenticalPointsWithinCapacity ==
    (EndedUnhindered /\ AllPointsIdentical /\ PointCount - 1 <= CandCap) =>
        /\ EmittedOfSize(3) = Choose3(PointCount)
        /\ EmittedOfSize(4) = Choose4(PointCount)
        /\ (PointCount > 0 =>
              /\ \A S \in Subsets34 :
                    Cardinality({ b \in EmittedBlocks : Members(GroupAt(b)) = S }) = 1
              /\ total_3 = Choose3(PointCount)
              /\ total_4 = Choose4(PointCount))

\* A finished run over identical points that fill the candidate array of
\* base 0 exactly.
C8_Witness ==
    /\ Finished
    /\ AllPointsIdentical
    /\ PointCount = CandCap + 1
    /\ EmittedOfSize(4) = Choose4(PointCount)
    /\ EmittedOfSize(4) >= 1

(***************************************************************************)
(* C9.  Radius 1.                                                          *)
(***************************************************************************)
\* The points of the group all have the same coordinates.
SameCoordinate(group) ==
    \A i \in Members(group), j \in Members(group) : PointAt(i) = PointAt(j)

\* C9 as stated: with radius 1, every emitted group consists of points that
\* all have the same coordinates.
C9_RadiusOneSameCoordinate ==
    radius = 1 => \A group \in EmittedGroups : SameCoordinate(group)

\* C9, amended: with radius 1, every emitted group consists of points within
\* squared distance 1 of the group's centroid ((k*x - sum_x)^2 +
\* (k*z - sum_z)^2 <= k^2 for each of the k members), so that any two of its
\* points lie within squared distance 4 of each other; the points need not
\* have the same coordinates.
C9_RadiusOneUnitDisc ==
    radius = 1 =>
        \A group \in EmittedGroups :
            /\ CentroidPredicate(Members(group), 1)
            /\ \A i \in Members(group), j \in Members(group) :
                  SquaredDistance(PointAt(i), PointAt(j)) <= 4

\* A finished run with radius 1 that emitted a group of points with different
\* coordinates.
C9_Witness ==
    /\ Finished
    /\ radius = 1
    /\ \E group \in EmittedGroups : ~SameCoordinate(group)

(***************************************************************************)
(* C10.  The scenario "Triangle-exact".                                    *)
(***************************************************************************)
\* The input is the three points (0,0), (2,0), (1,2), the radius is 2 and the
\* cell multiplier is 1.
TriangleExact ==
    /\ PointCount = 3
    /\ { PointAt(i) : i \in PointIndices } = { <<0, 0>>, <<2, 0>>, <<1, 2>> }
    /\ radius = 2
    /\ g_cell_multiplier = 1

\* C10 as stated: the run of the scenario emits 0 groups of 3 and 0 groups
\* of 4.
C10_TriangleNoGroups ==
    (Finished /\ TriangleExact) =>
        /\ EmittedBlocks = {}
        /\ total_3 = 0
        /\ total_4 = 0

\* C10, amended: the run of the scenario emits exactly one group, the group
\* of 3 made of the three points, and no group of 4.
C10_TriangleOneGroup ==
    (Finished /\ TriangleExact) =>
        /\ Cardinality(EmittedBlocks) = 1
        /\ \A group \in EmittedGroups : Members(group) = {0, 1, 2}
        /\ total_3 = 1
        /\ total_4 = 0
        /\ output.summary = <<1, 0>>

\* The run of the scenario has ended with its one group written.
C10_Witness ==
    /\ Finished
    /\ TriangleExact
    /\ total_3 = 1

(***************************************************************************)
(* Single function calls.  A second specification: one call of one         *)
(* function of the code on arguments drawn from bounded sets, the program   *)
(* itself standing still in its initial state.                              *)
(***************************************************************************)
program_vars ==
    << g_system_memory, lines, pc, exit_code, g_mode, g_cell_multiplier, radius, num_threads,
       g_structures, g_cells, g_cells_count, g_hash_table, g_hash_table_size,
       g_cell_size, g_total_cells, g_processed_cells, output, output_lock,
       g_progress_lock, mi, work, wpc, wcell, wpending, total_3, total_4,
       file_access, heap, g_done, ptpc >>

\* The cell sizes coord_to_cell is called with: the small ones, the largest
\* one for which coord - cell_size stays in int64_t for every coordinate, and
\* the next one.
ProbeCellSizes ==
    (1..(2 * Int32Max))
        \cup { Int64Max + Int32Min + 1, Int64Max + Int32Min + 2 }

\* The calls of coord_to_cell: on a coordinate and, for comparison, on the
\* next larger coordinate, with one cell size.
CoordToCellCalls ==
    { [op |-> "coord_to_cell", coord |-> v,
       next_coord |-> IF v < Int32Max THEN v + 1 ELSE v,
       cell_size |-> sz, done |-> FALSE, result |-> 0, next_result |-> 0] :
        v \in Int32Min..Int32Max, sz \in ProbeCellSizes }

\* coord_to_cell is called on both coordinates.
CallCoordToCell ==
    /\ probe.op = "coord_to_cell"
    /\ ~probe.done
    /\ \E r1 \in coord_to_cell_outcomes(probe.coord, probe.cell_size),
          r2 \in coord_to_cell_outcomes(probe.next_coord, probe.cell_size) :
          probe' = [probe EXCEPT !.done = TRUE, !.result = r1, !.next_result = r2]
    /\ UNCHANGED program_vars

\* The estimated counts detect_and_configure is called with, in units of 2^20
\* points.
ProbeEstimates == { 0, 1, 64, 700, 820, 1000, 1500, 2000 }

\* The physical memories it is called with: every multiple of half a GiB up to
\* MaxHalfGiB of them, and for every estimate the memories around the one
\* whose 80% is the need of a tier.
ProbeMemories ==
    { (k * GiB) \div 2 : k \in 1..MaxHalfGiB }
        \cup UNION { { (need * 100) \div 80 + d : d \in {-1, 0, 1, 2} } :
                       need \in UNION { { high_perf_mem(e), balanced_mem(e),
                                          low_mem_need(e),
                                          low_mem_need_again(e, 8),
                                          low_mem_need_again(e, 16) } :
                                        e \in ProbeEstimates } }

DetectCalls ==
    { [op |-> "detect_and_configure", estimated_structures |-> e,
       system_memory |-> m, done |-> FALSE, mode |-> "LOW", multiplier |-> 4] :
        e \in ProbeEstimates, m \in ProbeMemories }

\* detect_and_configure is called.
CallDetectAndConfigure ==
    /\ probe.op = "detect_and_configure"
    /\ ~probe.done
    /\ \E tier \in { detect_and_configure(probe.estimated_structures,
                                           probe.system_memory) } :
          probe' = [probe EXCEPT !.done = TRUE, !.mode = tier[1],
                                 !.multiplier = tier[2]]
    /\ UNCHANGED program_vars

\* The points the index is built from when find_cell is tried: with a cell
\* size of 1 their cells are their coordinates, and hash_cell sends (-2,-2)
\* and (0,0) to one bucket of the 2^20, and (-2,-1) and (0,1) to another.
HashPool == { <<-2, -2>>, <<0, 0>>, <<-2, -1>>, <<0, 1>>, <<1, 0>> }

\* The coordinates find_cell is asked for: those of the pool, of which the
\* index holds some, and (3,3), whose bucket is empty.
FindCellQueries == HashPool \cup { <<3, 3>> }

RECURSIVE SeqsUpTo(_, _)
\* The sequences over S of length 1 to n.
SeqsUpTo(S, n) ==
    IF n = 0 THEN {}
    ELSE { <<x>> : x \in S }
            \cup { <<x>> \o q : x \in S, q \in SeqsUpTo(S, n - 1) }

FindCellCalls ==
    { [op |-> "find_cell", points |-> pts, cx |-> q[1], cz |-> q[2],
       done |-> FALSE, cells |-> <<>>, hash_table |-> <<>>,
       hash_table_size |-> 0, found |-> -1] :
        pts \in SeqsUpTo(HashPool, MaxProbePoints), q \in FindCellQueries }

\* build_spatial_index is called for the points, in the HIGH tier with
\* radius 1, and then find_cell.
CallFindCell ==
    /\ probe.op = "find_cell"
    /\ ~probe.done
    /\ \E arr \in SortedStructures(ParsedStructures(probe.points, TRUE), "HIGH", 1) :
          \E ix \in { IndexOf(arr, "HIGH", 1, 1) } :
             probe' = [probe EXCEPT !.done = TRUE,
                                    !.cells = ix.cells,
                                    !.hash_table = ix.hash_table,
                                    !.hash_table_size = ix.hash_table_size,
                                    !.found = find_cell(ix, probe.cx, probe.cz)]
    /\ UNCHANGED program_vars

\* The multipliers detect_and_configure may leave, each with the tier it
\* leaves it in.
TierOfMultiplier(m) ==
    IF m = 1 THEN "HIGH" ELSE IF m = 2 THEN "BALANCED" ELSE "LOW"
Multipliers == {1, 2, 4, 8, 16}

\* The base points the gather is tried with, for the cell size cs: on both
\* sides of the cell edges at -cs, 0 and cs.
GatherBases(cs) ==
    { <<x, z>> : x \in {-cs, 1 - cs, -1, 0, 1, cs - 2, cs - 1}, z \in {-1, 0} }

\* The moves from the base to the second point: every move of length at most
\* 2r, and the moves of 2r + 1 along an axis.
GatherMoves(r) ==
    { d \in ((-2 * r)..(2 * r)) \X ((-2 * r)..(2 * r)) :
        d[1] * d[1] + d[2] * d[2] <= 4 * r * r }
        \cup { <<2 * r + 1, 0>>, <<-(2 * r + 1), 0>>,
               <<0, 2 * r + 1>>, <<0, -(2 * r + 1)>> }

GatherCalls ==
    UNION { { [op |-> "find_groups_in_cell", cell_multiplier |-> m, radius |-> r,
               base |-> b, other |-> << b[1] + d[1], b[2] + d[2] >>,
               done |-> FALSE, base_cell |-> <<0, 0>>, other_cell |-> <<0, 0>>,
               neighbors |-> <<>>] :
                b \in GatherBases(m * r), d \in GatherMoves(r) } :
            m \in Multipliers, r \in 1..MaxProbeRadius }

\* The index is built from the two points, and find_groups_in_cell collects
\* the neighbors of the base's cell.
CallGather ==
    /\ probe.op = "find_groups_in_cell"
    /\ ~probe.done
    /\ LET mode == TierOfMultiplier(probe.cell_multiplier)
           cs == probe.radius * probe.cell_multiplier
       IN  \E arr \in SortedStructures(
                          ParsedStructures(<<probe.base, probe.other>>, UseFast(mode)),
                          mode, cs) :
             \E ix \in { IndexOf(arr, mode, probe.cell_multiplier, cs) } :
               \E c \in 1..ix.cells_count :
                  /\ ix.cells[c].cellX = coord_to_cell(probe.base[1], cs)
                  /\ ix.cells[c].cellZ = coord_to_cell(probe.base[2], cs)
                  /\ probe' =
                       [probe EXCEPT
                          !.done = TRUE,
                          !.base_cell = << ix.cells[c].cellX, ix.cells[c].cellZ >>,
                          !.other_cell = << coord_to_cell(probe.other[1], cs),
                                            coord_to_cell(probe.other[2], cs) >>,
                          !.neighbors = GatherNeighbors(ix, ix.cells[c],
                                                        NeighborBufSize(mode))]
    /\ UNCHANGED program_vars

\* The cell counts the hash table is sized for: a few small ones, and the
\* counts around the powers of two from 2^18 to 2^MaxProbeCellBits.
ProbeCellCounts ==
    {1, 2, 1000} \cup { TwoTo(k) + d : k \in 18..MaxProbeCellBits, d \in {-1, 0, 1} }

\* The cell coordinates hash_cell is then called with.
ProbeCellCoords == { <<0, 0>>, <<-1, -1>>, <<-2, 7>>, <<12345, -54321>> }

HashSizeCalls ==
    { [op |-> "hash_cell", num_cells |-> n, mode |-> mode, cx |-> c[1],
       cz |-> c[2], done |-> FALSE, hash_table_size |-> 0, h |-> 0] :
        n \in ProbeCellCounts, mode \in {"HIGH", "BALANCED", "LOW"},
        c \in ProbeCellCoords }

\* build_spatial_index sizes the hash table for the cell count, and hash_cell
\* is called for a cell.
CallHashSize ==
    /\ probe.op = "hash_cell"
    /\ ~probe.done
    /\ \E size \in { HashTableSize(probe.num_cells, probe.mode) } :
          probe' = [probe EXCEPT !.done = TRUE,
                                 !.hash_table_size = size,
                                 !.h = hash_cell(probe.cx, probe.cz, size)]
    /\ UNCHANGED program_vars

\* What an int64_t expression of mathematical value v may do: when v leaves
\* the range of int64_t the behaviour is undefined, and the build either
\* wraps the value around or traps.
Int64Outcomes(v) ==
    IF v >= Int64Min /\ v <= Int64Max
    THEN { [overflow |-> FALSE, trap |-> FALSE, value |-> v] }
    ELSE { [overflow |-> TRUE, trap |-> TRUE, value |-> 0],
           [overflow |-> TRUE, trap |-> FALSE,
            value |-> ((v - Int64Min) % TwoTo(2 * CoordBits)) + Int64Min] }

\* The coordinates dist_sq_idx is tried with: the ends of int32_t and the
\* values around zero.
EdgeCoords == { Int32Min, -1, 0, Int32Max }

DistSqCalls ==
    { [op |-> "dist_sq_idx", ax |-> ax, az |-> az, bx |-> bx, bz |-> bz,
       done |-> FALSE, overflow |-> FALSE, trap |-> FALSE, value |-> 0] :
        ax \in EdgeCoords, az \in EdgeCoords, bx \in EdgeCoords,
        bz \in EdgeCoords }

\* dist_sq_idx is called for two points: the differences are taken in
\* int64_t, then squared and added.
CallDistSq ==
    /\ probe.op = "dist_sq_idx"
    /\ ~probe.done
    /\ \E dx \in { probe.ax - probe.bx }, dz \in { probe.az - probe.bz } :
        \E xx \in Int64Outcomes(dx * dx), zz \in Int64Outcomes(dz * dz) :
          IF xx.trap \/ zz.trap
          THEN probe' = [probe EXCEPT !.done = TRUE, !.overflow = TRUE,
                                      !.trap = TRUE]
          ELSE \E sum \in Int64Outcomes(xx.value + zz.value) :
                 probe' = [probe EXCEPT
                             !.done = TRUE,
                             !.overflow = xx.overflow \/ zz.overflow
                                            \/ sum.overflow,
                             !.trap = sum.trap,
                             !.value = sum.value]
    /\ UNCHANGED program_vars

\* The radii main accepts: every positive int64_t.
RadiusCalls ==
    { [op |-> "radius", radius |-> r, cell_multiplier |-> m, done |-> FALSE,
       overflow |-> FALSE, trap |-> FALSE, radius_sq |-> 0, cell_size |-> 0,
       max_pair_dist_sq |-> 0] :
        r \in 1..Int64Max, m \in Multipliers }

\* main computes radius * radius and radius * g_cell_multiplier for a worker,
\* and find_groups_in_cell computes 4 * radius_sq from the former.
CallRadius ==
    /\ probe.op = "radius"
    /\ ~probe.done
    /\ \E rr \in Int64Outcomes(probe.radius * probe.radius),
          cs \in Int64Outcomes(probe.radius * probe.cell_multiplier) :
          IF rr.trap \/ cs.trap
          THEN probe' = [probe EXCEPT !.done = TRUE, !.overflow = TRUE,
                                      !.trap = TRUE]
          ELSE \E mp \in Int64Outcomes(4 * rr.value) :
                 probe' = [probe EXCEPT
                             !.done = TRUE,
                             !.overflow = rr.overflow \/ cs.overflow
                                            \/ mp.overflow,
                             !.trap = mp.trap,
                             !.radius_sq = rr.value,
                             !.cell_size = cs.value,
                             !.max_pair_dist_sq = mp.value]
    /\ UNCHANGED program_vars

ProbeInputs ==
    CoordToCellCalls \cup DetectCalls \cup FindCellCalls \cup GatherCalls
        \cup HashSizeCalls \cup DistSqCalls \cup RadiusCalls

ProbeInit ==
    /\ lines = <<>>
    /\ file_access = "ok"
    /\ probe \in ProbeInputs
    /\ InitProgram

ProbeNext ==
    \/ CallCoordToCell
    \/ CallDetectAndConfigure
    \/ CallFindCell
    \/ CallGather
    \/ CallHashSize
    \/ CallDistSq
    \/ CallRadius

ProbeSpec == ProbeInit /\ [][ProbeNext]_vars

(***************************************************************************)
(* C11.  coord_to_cell is the floor of the quotient.                       *)
(***************************************************************************)
\* C11: for every int32_t coordinate v and every positive cell size s,
\* coord_to_cell(v, s) is the floor of v / s, and it is monotone
\* non-decreasing in v.
C11_CoordToCellIsFloor ==
    (probe.op = "coord_to_cell" /\ probe.done) =>
        /\ probe.result * probe.cell_size <= probe.coord
        /\ probe.coord < (probe.result + 1) * probe.cell_size
        /\ probe.next_result * probe.cell_size <= probe.next_coord
        /\ probe.next_coord < (probe.next_result + 1) * probe.cell_size
        /\ probe.result <= probe.next_result

(***************************************************************************)
(* C12.  Building the index again.                                         *)
(***************************************************************************)
\* The arrays a further build_spatial_index may sort the points of this run
\* into: g_structures holds the same multiset of points as the input, and
\* qsort may leave any ascending arrangement of it.
RebuildArrays == SortedStructures(g_structures, g_mode, g_cell_size)

\* C12: right after build_spatial_index, building the index once more on the
\* same multiset of points with the same cell size, the already sorted array
\* included, yields the same cell count, the same cell entries (cellX,
\* cellZ, start, count, next) and the same hash table, whatever order qsort
\* leaves equal keys in.
C12_BuildIdempotent ==
    pc = "open" =>
        \A arr \in RebuildArrays :
            \E ix \in { IndexOf(arr, g_mode, g_cell_multiplier, g_cell_size) } :
                /\ ix.cells_count = g_cells_count
                /\ ix.cells = g_cells
                /\ ix.hash_table = g_hash_table
                /\ ix.hash_table_size = g_hash_table_size

\* An index of several cells was built over points that qsort may also leave
\* in another order.
C12_Witness ==
    /\ pc = "open"
    /\ g_cells_count >= 2
    /\ \E arr \in RebuildArrays : arr # g_structures
    /\ \E c \in 1..Len(g_cells) : g_cells[c].count >= 2

(***************************************************************************)
(* C13.  The summary.                                                      *)
(***************************************************************************)
\* The workers of this run.
Created == 0..(num_threads - 1)

RECURSIVE SumOfCounters(_, _)
\* The sum of the counter of groups of k members over the workers 0 .. n-1.
SumOfCounters(k, n) ==
    IF n = 0 THEN 0
    ELSE (IF k = 3 THEN work[n - 1].groups_found_3 ELSE work[n - 1].groups_found_4)
         + SumOfCounters(k, n - 1)

\* The summary is in the output file.
SummaryWritten == output.summary # <<>>

\* C13: when the summary is in the output file, every worker has been joined
\* and none has a group left to write, so the summary lies after the last
\* group block; and its two values are the sums of the workers' counters,
\* which are the numbers of group blocks of 3 and of 4 members in the file.
C13_SummaryAfterJoin ==
    SummaryWritten =>
        /\ \A t \in Created : wpc[t] = "joined" /\ wpending[t] = <<>>
        /\ output_lock = -1
        /\ output.summary = << SumOfCounters(3, num_threads),
                               SumOfCounters(4, num_threads) >>
        /\ output.summary = << EmittedOfSize(3), EmittedOfSize(4) >>

\* The summary of a run of two workers that both wrote groups, of both sizes.
C13_Witness ==
    /\ SummaryWritten
    /\ num_threads = 2
    /\ \A t \in Created : work[t].groups_found_3 + work[t].groups_found_4 >= 1
    /\ output.summary[1] >= 1
    /\ output.summary[2] >= 1

(***************************************************************************)
(* C14.  Allocation failure.                                               *)
(***************************************************************************)
\* The blocks C14 names: the point array (allocated by preallocate_structures
\* and grown by ensure_capacity), the cell array, the hash table and the
\* workers' neighbor buffers.
C14Blocks ==
    { StructuresBlock, GrownBlock, CellsBlock, HashTableBlock }
        \cup { BufBlock(t) : t \in Threads }

\* One of them could not be allocated.
AllocationFailed == \E b \in C14Blocks : heap[b] = "failed"

\* C14: when the point array, the cell array, the hash table or a worker's
\* neighbor buffer cannot be allocated, the run ends with exit code 1, the
\* summary is not written, and every block allocated before has been
\* released, once.
C14_AllocationFailureIsFatal ==
    AllocationFailed =>
        /\ pc = "exit"
        /\ exit_code = 1
        /\ ~SummaryWritten
        /\ \A b \in Blocks : heap[b] \notin {"allocated", "freed_twice"}

\* A run in which the hash table could not be allocated: the cell array has
\* been freed by build_spatial_index and again by cleanup.
C14_DoubleFree ==
    /\ heap[HashTableBlock] = "failed"
    /\ heap[CellsBlock] = "freed_twice"

(***************************************************************************)
(* C15.  An input file that is missing or cannot be read.                  *)
(***************************************************************************)
\* detect_and_configure has not run and neither prompt has been answered.
NotConfigured == g_system_memory = 0 /\ radius = 0 /\ num_threads = 0

\* C15: when the input file is missing or cannot be read, main returns 1 at
\* the file-path prompt: detect_and_configure has not run, the radius and the
\* thread count have not been asked for, and nothing has been loaded, indexed
\* or enumerated.
C15_FailFastAtPathPrompt ==
    (file_access # "ok" /\ pc # "start") =>
        /\ pc = "exit"
        /\ exit_code = 1
        /\ NotConfigured
        /\ heap = NoHeap
        /\ g_structures = <<>>
        /\ g_cells_count = 0
        /\ \A t \in Threads : wpc[t] = "none"

\* A run on a file that cannot be read has been configured and has asked for
\* the radius and the thread count.
C15_UnreadableConfigured ==
    /\ file_access = "unreadable"
    /\ pc = "parse"
    /\ ~NotConfigured

(***************************************************************************)
(* C16.  Tier selection.                                                   *)
(***************************************************************************)
\* A projected footprint fits in 80% of the physical memory.
FitsIn80Percent(need, system_memory) == need * 100 <= system_memory * 80

HighChosenByTable(e, m) ==
    m >= 64 * GiB /\ FitsIn80Percent(high_perf_mem(e), m)

BalancedChosenByTable(e, m) ==
    /\ ~HighChosenByTable(e, m)
    /\ m >= 32 * GiB
    /\ FitsIn80Percent(balanced_mem(e), m)

C16_LowReachesSixteen ==
    /\ probe.op = "detect_and_configure"
    /\ probe.done
    /\ probe.mode = "LOW"
    /\ probe.multiplier = 16

(***************************************************************************)
(* C17.  The order of the groups one thread emits.                         *)
(***************************************************************************)
\* The tuple a comes before the tuple b in lexicographic order.
LexLess(a, b) ==
    \E k \in 1..(Len(a) + 1) :
        /\ k <= Len(b)
        /\ \A i \in 1..(k - 1) : a[i] = b[i]
        /\ (k <= Len(a) => a[k] < b[k])

\* Two groups of one thread, the first written before the second.
EmittedInOrder ==
    { pair \in EmittedBlocks \X EmittedBlocks :
        pair[1][1] = pair[2][1] /\ pair[1][2] < pair[2][2] }

\* C17 as stated: one thread emits its groups by ascending base, and the
\* groups of one base in the lexicographic order of their tuples of candidate
\* indices, whatever their sizes.
C17_LexicographicWhateverSize ==
    \A pair \in EmittedInOrder :
        LET first == GroupAt(pair[1])
            second == GroupAt(pair[2])
        IN  /\ first[1] <= second[1]
            /\ first[1] = second[1] => LexLess(Tail(first), Tail(second))

\* C17, amended: one thread emits its groups by ascending base; for one base
\* it emits every group of 4 before every group of 3, and the groups of one
\* size in the lexicographic order of their tuples of candidate indices.
C17_FoursThenThreesLexicographic ==
    \A pair \in EmittedInOrder :
        LET first == GroupAt(pair[1])
            second == GroupAt(pair[2])
        IN  /\ first[1] <= second[1]
            /\ first[1] = second[1] =>
                  /\ Len(first) >= Len(second)
                  /\ Len(first) = Len(second) =>
                        LexLess(Tail(first), Tail(second))

\* A thread has emitted, for one base, a group of 4 and after it two groups
\* of 3, and it has emitted groups of two bases.
C17_Witness ==
    \E t \in Threads :
        /\ \E n \in 1..(Len(output.blocks[t]) - 2) :
              /\ Len(output.blocks[t][n]) = 4
              /\ Len(output.blocks[t][n + 1]) = 3
              /\ Len(output.blocks[t][n + 2]) = 3
              /\ output.blocks[t][n][1] = output.blocks[t][n + 2][1]
        /\ \E n \in 1..(Len(output.blocks[t]) - 1) :
              output.blocks[t][n][1] < output.blocks[t][n + 1][1]

(***************************************************************************)
(* C18.  The built index.                                                  *)
(***************************************************************************)
\* build_spatial_index has returned true.
IndexBuilt == g_cells_count > 0

\* The floored cell coordinates (cx, cz) of point idx.
FlooredCell(idx) ==
    << PointAt(idx)[1] \div g_cell_size, PointAt(idx)[2] \div g_cell_size >>

\* (cx, cz) order: a comes before b.
CellBefore(a, b) == a[1] < b[1] \/ (a[1] = b[1] /\ a[2] < b[2])

\* The coordinates of cell c (one-based) and the point indices of its range.
CellCoords(c) == << g_cells[c].cellX, g_cells[c].cellZ >>
CellRange(c) == g_cells[c].start .. (g_cells[c].start + g_cells[c].count - 1)

\* C18: after build_spatial_index has succeeded, the point array is sorted
\* ascending by (cx, cz); the cell array is strictly ascending by (cx, cz)
\* with exactly one cell per cell coordinate present; the range of each cell
\* is non-empty and holds exactly the points whose floored cell coordinate is
\* the cell's; and the ranges are consecutive and partition [0, N).
C18_IndexInvariants ==
    IndexBuilt =>
        /\ PointCount >= 1
        /\ Len(g_cells) = g_cells_count
        /\ \A i \in PointIndices, j \in PointIndices :
              i < j => ~CellBefore(FlooredCell(j), FlooredCell(i))
        /\ \A a \in 1..g_cells_count, b \in 1..g_cells_count :
              a < b => CellBefore(CellCoords(a), CellCoords(b))
        /\ { CellCoords(c) : c \in 1..g_cells_count }
              = { FlooredCell(i) : i \in PointIndices }
        /\ \A c \in 1..g_cells_count :
              /\ g_cells[c].count >= 1
              /\ CellRange(c) = { i \in PointIndices : FlooredCell(i) = CellCoords(c) }
        /\ g_cells[1].start = 0
        /\ \A c \in 1..(g_cells_count - 1) :
              g_cells[c + 1].start = g_cells[c].start + g_cells[c].count
        /\ g_cells[g_cells_count].start + g_cells[g_cells_count].count = PointCount

\* An index of the HIGH tier with several cells, one of negative coordinates
\* and one of more than one point.
C18_Witness ==
    /\ IndexBuilt
    /\ g_cells_count >= 3
    /\ g_cells[1].cellX < 0
    /\ \E c \in 1..g_cells_count : g_cells[c].count >= 2
    /\ g_mode = "HIGH"

(***************************************************************************)
(* C19.  The hash chains.                                                  *)
(***************************************************************************)
RECURSIVE ChainFrom(_, _, _)
\* The cells (one-based) a walk visits from the link idx by following next,
\* for at most fuel steps; 0 is in the result iff the walk got to the end of
\* the chain within them.
ChainFrom(cells, idx, fuel) ==
    IF idx = 0 THEN {0}
    ELSE IF fuel = 0 THEN {}
    ELSE {idx} \cup ChainFrom(cells, cells[idx].next, fuel - 1)

\* The walk from the bucket of the coordinates (cx, cz).
ProbeChain(cx, cz) ==
    ChainFrom(probe.cells,
              BucketHead(probe.hash_table,
                         hash_cell(cx, cz, probe.hash_table_size)),
              Len(probe.cells))

\* The cells of the probe's index at (cx, cz), one-based.
ProbeCellsAt(cx, cz) ==
    { c \in 1..Len(probe.cells) :
        probe.cells[c].cellX = cx /\ probe.cells[c].cellZ = cz }

\* C19: after the index is built every cell is reached from its bucket by
\* following the next links; each link leads to a smaller cell index, so
\* every chain ends at 0; and find_cell(cx, cz) returns the one cell with
\* these coordinates when there is one, and NULL when there is none.
C19_HashChains ==
    (probe.op = "find_cell" /\ probe.done) =>
        /\ \A c \in 1..Len(probe.cells) :
              /\ c \in ProbeChain(probe.cells[c].cellX, probe.cells[c].cellZ)
              /\ 0 \in ProbeChain(probe.cells[c].cellX, probe.cells[c].cellZ)
              /\ probe.cells[c].next < c
              /\ probe.cells[c].next >= 0
        /\ \A h \in DOMAIN probe.hash_table :
              probe.hash_table[h] \in 1..Len(probe.cells)
        /\ Cardinality(ProbeCellsAt(probe.cx, probe.cz)) <= 1
        /\ IF ProbeCellsAt(probe.cx, probe.cz) = {}
           THEN probe.found = -1
           ELSE ProbeCellsAt(probe.cx, probe.cz) = { probe.found + 1 }

\* find_cell has found a cell that is not the head of its bucket.
C19_Witness ==
    /\ probe.op = "find_cell"
    /\ probe.done
    /\ probe.found >= 0
    /\ BucketHead(probe.hash_table,
                  hash_cell(probe.cx, probe.cz, probe.hash_table_size))
          # probe.found + 1

\* find_cell has walked a chain to its end without finding the cell.
C19_AbsentAfterWalk ==
    /\ probe.op = "find_cell"
    /\ probe.done
    /\ probe.found = -1
    /\ ProbeChain(probe.cx, probe.cz) # {0}

(***************************************************************************)
(* C20.  The neighbor window covers every point within 2r.                 *)
(***************************************************************************)
\* |a - b|.
AbsDiff(a, b) == IF a >= b THEN a - b ELSE b - a

\* The two points of the probe are at most 2r apart.
ProbeWithin2r ==
    (probe.base[1] - probe.other[1]) * (probe.base[1] - probe.other[1])
        + (probe.base[2] - probe.other[2]) * (probe.base[2] - probe.other[2])
      <= 4 * probe.radius * probe.radius

\* C20: for every multiplier m of 1, 2, 4, 8, 16, every radius r >= 1 and
\* the cell size m * r, two points whose squared distance is at most 4r^2
\* lie in cells whose coordinates differ by at most w = floor((m+1)/2) + 1 on
\* each axis, negative coordinates included, and the neighbor list gathered
\* for the cell of one holds the other when the buffer does not fill.
C20_WindowCoversWithin2r ==
    (probe.op = "find_groups_in_cell" /\ probe.done /\ ProbeWithin2r) =>
        LET w == ((probe.cell_multiplier + 1) \div 2) + 1
        IN  /\ AbsDiff(probe.base_cell[1], probe.other_cell[1]) <= w
            /\ AbsDiff(probe.base_cell[2], probe.other_cell[2]) <= w
            /\ Members(probe.neighbors) = {0, 1}

\* Two points at most 2r apart on the two sides of the zero boundary, in
\* cells that differ by exactly w on the x axis.
C20_Witness ==
    /\ probe.op = "find_groups_in_cell"
    /\ probe.done
    /\ ProbeWithin2r
    /\ probe.base[1] < 0
    /\ probe.other[1] >= 0
    /\ probe.other_cell[1] - probe.base_cell[1]
          = ((probe.cell_multiplier + 1) \div 2) + 1

(***************************************************************************)
(* C21.  The 4r^2 pair pruning discards no valid group.                    *)
(***************************************************************************)
\* The cell entry of the cell point idx lies in.
CellEntryOf(idx) ==
    g_cells[find_cell(Index, CellOfPoint(idx)[1], CellOfPoint(idx)[2]) + 1]

\* The candidate array find_groups_in_cell builds for the base idx.
CandidatesOf(idx) ==
    BuildCandidates(Index, idx,
                    GatherNeighbors(Index, CellEntryOf(idx), NeighborBufSize(g_mode)),
                    4 * radius * radius)

\* The groups of k members over the candidates that is_valid_group accepts,
\* with no pair test before it.
ValidGroupsOver(base_idx, candidates, k) ==
    SelectSeq(MapGroups(base_idx, candidates,
                        IF k = 4 THEN LoopTriples(Len(candidates))
                        ELSE LoopPairs(Len(candidates))),
              LAMBDA group : is_valid_group(Index, group, k, radius * radius))

WorkerRunning(t) == wpc[t] \notin {"none", "done", "joined"}

\* C22: while a created worker has not returned, the point array, the cell
\* array and the hash table are not released and that worker's neighbor
\* buffer is not released, and no step writes the three arrays; on every path
\* of main.
C22_SharedBlocksUntouched ==
    /\ [](\A t \in Threads :
            WorkerRunning(t) =>
               /\ heap[StructuresBlock] = "allocated"
               /\ heap[CellsBlock] = "allocated"
               /\ heap[HashTableBlock] = "allocated"
               /\ heap[BufBlock(t)] = "allocated")
    /\ [][(\E t \in Threads : WorkerRunning(t)) =>
             UNCHANGED << g_structures, g_cells, g_hash_table >>]_vars

\* main has released the arrays and the buffer of a worker that has not
\* returned.
C22_ReleasedUnderWorker ==
    \E t \in Threads :
        /\ WorkerRunning(t)
        /\ heap[CellsBlock] = "freed"
        /\ heap[BufBlock(t)] = "freed"

(***************************************************************************)
(* C23.  The stride partition and the processed-cell counter.              *)
(***************************************************************************)
\* Worker t has been created.
WorkerCreated(t) == wpc[t] # "none"

\* The cells worker t has processed: find_groups_in_cell has returned for
\* them and the counter has been incremented.
CellsProcessedBy(t) ==
    { work[t].thread_id + k * work[t].num_threads :
        k \in 0..(work[t].cells_processed - 1) }

\* Every worker has been created and has returned.
AllWorkersReturned ==
    /\ pc \in {"join", "summary"} \/ Finished
    /\ \A t \in Created : wpc[t] \in {"done", "joined"}

\* C23: with T workers and M cells, worker t processes the cells i with
\* i mod T = t, in ascending order, and every cell is processed by one worker,
\* once; the processed-cell counter is incremented only by the holder of
\* g_progress_lock, by one for each processed cell, never exceeds M and is M
\* once all workers have returned.
C23_StridePartition ==
    /\ [](\A t \in Threads :
            WorkerCreated(t) =>
               /\ work[t].thread_id = t
               /\ work[t].num_threads = num_threads
               /\ wcell[t] = t + work[t].cells_processed * num_threads
               /\ wcell[t] % num_threads = t
               /\ \A i \in CellsProcessedBy(t) : i < g_cells_count)
    /\ [](g_processed_cells <= g_cells_count)
    /\ [](AllWorkersReturned =>
            /\ g_processed_cells = g_cells_count
            /\ \A i \in 0..(g_cells_count - 1) :
                  /\ i \in CellsProcessedBy(i % num_threads)
                  /\ \A t \in Created :
                        i \in CellsProcessedBy(t) => t = i % num_threads)
    /\ [][\A t \in Threads :
             (WorkerCreated(t) /\ wcell'[t] # wcell[t]) =>
                /\ wcell[t] < g_cells_count
                /\ wcell'[t] = wcell[t] + num_threads
                /\ work'[t].cells_processed = work[t].cells_processed + 1]_vars
    /\ [][g_processed_cells' # g_processed_cells =>
             /\ g_processed_cells' = g_processed_cells + 1
             /\ \E t \in Threads :
                   /\ g_progress_lock = t
                   /\ wcell'[t] = wcell[t] + num_threads]_vars

\* Two workers have returned after processing three or more cells between
\* them.
C23_Witness ==
    /\ AllWorkersReturned
    /\ num_threads = 2
    /\ g_cells_count >= 3
    /\ g_processed_cells = g_cells_count
    /\ work[0].cells_processed >= 2
    /\ work[1].cells_processed >= 1

(***************************************************************************)
(* C24.  Group emission is mutually exclusive.                             *)
(***************************************************************************)
\* Worker t is between the lock and the unlock of output_group: it writes
\* the lines of a group block.
InOutputGroup(t) == wpc[t] = "write"

\* C24: at most one worker is inside the critical section of output_group at
\* any time, and it holds the lock, so the lines of two group blocks are
\* never interleaved; and a group block is written only after the header and
\* before the summary.
C24_EmissionExclusive ==
    /\ [](\A t \in Threads, u \in Threads :
            (InOutputGroup(t) /\ InOutputGroup(u)) => t = u)
    /\ [](\A t \in Threads : InOutputGroup(t) => output_lock = t)
    /\ [][output'.blocks # output.blocks =>
             /\ \E t \in Threads :
                   /\ InOutputGroup(t)
                   /\ \A u \in Threads \ {t} :
                         output'.blocks[u] = output.blocks[u]
             /\ output.header # <<>>
             /\ output.summary = <<>>
             /\ output'.summary = <<>>]_vars
    /\ [][output'.summary # output.summary =>
             \A t \in Threads : wpc[t] \in {"none", "joined"}]_vars

\* A worker writes a group block while another waits for the lock.
C24_Witness ==
    \E t \in Threads, u \in Threads :
        /\ InOutputGroup(t)
        /\ output_lock = t
        /\ wpc[u] = "output"

(***************************************************************************)
(* C25.  The size of the hash table.                                       *)
(***************************************************************************)
\* The smallest power of two that is at least n (n up to 2^30).
SmallestPow2AtLeast(n) ==
    TwoTo(CHOOSE k \in 0..30 :
            TwoTo(k) >= n /\ \A j \in 0..(k - 1) : TwoTo(j) < n)

\* The cap of the tier.
HashCap(mode) ==
    IF mode = "HIGH" THEN TwoTo(27)
    ELSE IF mode = "BALANCED" THEN TwoTo(26)
    ELSE TwoTo(24)

Least(a, b) == IF a <= b THEN a ELSE b
Greatest(a, b) == IF a >= b THEN a ELSE b

\* C25: the hash table size is the power of two
\* min(cap, max(2^20, smallest power of two >= 2M)) for M cells, with the cap
\* 2^27, 2^26, 2^24 for HIGH, BALANCED, LOW; and the bucket index hash_cell
\* computes lies in [0, table size).
C25_HashTableSize ==
    (probe.op = "hash_cell" /\ probe.done) =>
        /\ probe.hash_table_size
             = Least(HashCap(probe.mode),
                     Greatest(TwoTo(20), SmallestPow2AtLeast(2 * probe.num_cells)))
        /\ \E k \in 20..27 : probe.hash_table_size = TwoTo(k)
        /\ probe.h >= 0
        /\ probe.h < probe.hash_table_size

\* A table between the floor and the cap, for a cell count whose double is a
\* power of two.
C25_Witness ==
    /\ probe.op = "hash_cell"
    /\ probe.done
    /\ probe.hash_table_size = 2 * probe.num_cells
    /\ probe.hash_table_size > TwoTo(20)
    /\ probe.hash_table_size < HashCap(probe.mode)

(***************************************************************************)
(* C26.  The multiplier of the LOW tier.                                   *)
(***************************************************************************)
\* The LOW projection for a multiplier: 8 bytes per point, the cell entries
\* of N / multiplier^2 cells, and the LOW hash table of 2^24 buckets.
LowProjection(estimated_structures, multiplier) ==
    ArrayUnits(estimated_structures, sizeof_StructureCompact)
        + CellUnits(estimated_structures, multiplier * multiplier)
        + HashUnits(24)

\* C26: when detect_and_configure returns with the LOW tier selected, either
\* the multiplier is 16, or the LOW projection for the final multiplier (with
\* the hash table of 2^24 buckets) is at most 80% of the physical memory.
C26_LowMultiplierFits ==
    (probe.op = "detect_and_configure" /\ probe.done /\ probe.mode = "LOW") =>
        \/ probe.multiplier = 16
        \/ LowProjection(probe.estimated_structures, probe.multiplier)
              <= available(probe.system_memory)

\* The loop stopped at 8 on the need it computed with 2^22 buckets, and the
\* projection with 2^24 buckets is more than 80% of the memory.
C26_StoppedOnSmallerTable ==
    /\ probe.op = "detect_and_configure"
    /\ probe.done
    /\ probe.mode = "LOW"
    /\ probe.multiplier = 8
    /\ low_mem_need_again(probe.estimated_structures, 8)
         <= available(probe.system_memory)
    /\ LowProjection(probe.estimated_structures, 8)
         > available(probe.system_memory)

(***************************************************************************)
(* C27.  The squared distances in int64_t.                                 *)
(***************************************************************************)
\* C27: no signed overflow occurs in the squared-distance computations: for
\* all points with int32_t coordinates dx*dx + dz*dz of dist_sq_idx fits in
\* int64_t, and for every accepted radius radius*radius, 4*radius_sq and
\* radius*cell_multiplier fit in int64_t.
C27_NoInt64Overflow ==
    (probe.op \in {"dist_sq_idx", "radius"} /\ probe.done) => ~probe.overflow

\* Two points at the two ends of int32_t, whose difference squared leaves
\* int64_t.
C27_DistanceOverflows ==
    /\ probe.op = "dist_sq_idx"
    /\ probe.done
    /\ probe.overflow
    /\ probe.ax = Int32Min
    /\ probe.bx = Int32Max

\* An accepted radius whose square leaves int64_t.
C27_RadiusSquareOverflows ==
    /\ probe.op = "radius"
    /\ probe.done
    /\ probe.overflow
    /\ probe.radius * probe.radius > Int64Max

(***************************************************************************)
(* C28.  Full buffers.                                                     *)
(***************************************************************************)
\* The neighbors find_groups_in_cell gathers for the cell of point idx, and
\* those it would gather in a buffer with room for every point.
NeighborsOf(idx) ==
    GatherNeighbors(Index, CellEntryOf(idx), NeighborBufSize(g_mode))
AllNeighborsOf(idx) ==
    GatherNeighbors(Index, CellEntryOf(idx), PointCount)

\* The sequence q of numbers is strictly ascending.
StrictlyAscending(q) == \A i \in 1..(Len(q) - 1) : q[i] < q[i + 1]

\* C28: the gathered neighbors are at most the worker's neighbor buffer size
\* and the candidates at most the candidate array's size, so no write goes
\* past either array; the gathered indices are strictly ascending (hence
\* pairwise distinct) and a full buffer holds a prefix of the neighbors; the
\* loops over groups of 3 and of 4 are entered only with at least 2 and 3
\* candidates, so that num_cand - 1 and num_cand - 2 do not wrap; and the
\* groups enumerated from the truncated data are groups of points of the
\* array.
C28_SoftOverflow ==
    pc = "open" =>
        \A c \in 1..g_cells_count :
            \E neighbors \in { GatherNeighbors(Index, g_cells[c],
                                               NeighborBufSize(g_mode)) },
               every \in { GatherNeighbors(Index, g_cells[c], PointCount) } :
               /\ Len(neighbors) <= NeighborBufSize(g_mode)
               /\ StrictlyAscending(every)
               /\ neighbors = SubSeq(every, 1, Len(neighbors))
               /\ \A ci \in 0..(g_cells[c].count - 1) :
                     \E candidates \in { BuildCandidates(Index, g_cells[c].start + ci,
                                                         neighbors,
                                                         4 * radius * radius) } :
                        /\ Len(candidates) <= CandCap
                        /\ GroupsOf3Entered(Len(candidates))
                              => Len(candidates) - 1 >= 1
                        /\ GroupsOf4Entered(Len(candidates))
                              => Len(candidates) - 2 >= 1
               /\ \E groups \in { find_groups_in_cell(Index, g_cells[c],
                                                       NeighborBufSize(g_mode),
                                                       radius * radius) } :
                     \A n \in 1..Len(groups) :
                        /\ Members(groups[n]) \subseteq PointIndices
                        /\ StrictlyAscending(groups[n])

\* A cell whose window holds more points than the neighbor buffer, with a
\* base whose candidates fill the candidate array, and a group is enumerated
\* from the truncated data all the same.
C28_Witness ==
    /\ pc = "open"
    /\ \E idx \in PointIndices :
          /\ Len(AllNeighborsOf(idx)) > NeighborBufSize(g_mode)
          /\ Len(NeighborsOf(idx)) = NeighborBufSize(g_mode)
          /\ Len(CandidatesOf(idx)) = CandCap
          /\ find_groups_in_cell(Index, CellEntryOf(idx), NeighborBufSize(g_mode),
                                 radius * radius) # <<>>

\* A base with more points in reach among its gathered neighbors than the
\* candidate array holds.
C28_CandidatesTruncated ==
    /\ pc = "open"
    /\ \E idx \in PointIndices :
          /\ Len(CandidatesOf(idx)) = CandCap
          /\ Cardinality({ j \in Members(NeighborsOf(idx)) :
                             /\ j > idx
                             /\ dist_sq_idx(Index, idx, j) <= 4 * radius * radius })
               > CandCap

(***************************************************************************)
(* C29.  No block is freed twice.                                          *)
(***************************************************************************)
\* C29: on every path from start to exit, the allocation-failure and the
\* output-creation-failure paths included, each of the point array, the cell
\* array and the hash table is freed at most once.
C29_FreedAtMostOnce ==
    \A b \in {StructuresBlock, GrownBlock, CellsBlock, HashTableBlock} :
        heap[b] # "freed_twice"

\* The run has ended after the hash table could not be allocated, and the
\* cell array has been freed by build_spatial_index and again by cleanup,
\* while the point array has been freed once.
C29_CellsFreedAgain ==
    /\ pc = "exit"
    /\ heap[HashTableBlock] = "failed"
    /\ heap[CellsBlock] = "freed_twice"
    /\ heap[StructuresBlock] = "freed" \/ heap[GrownBlock] = "freed"

(***************************************************************************)
(* C30.  Termination under fair scheduling.                                *)
(***************************************************************************)
\* The workers main has created.
CreatedWorkers == 0..(num_threads - 1)

\* main has written the summary and returned 0, every worker has been joined
\* after processing its cells, and the progress thread has returned.
EndedWell ==
    /\ pc = "exit"
    /\ exit_code = 0
    /\ output.summary # <<>>
    /\ ptpc = "ended"
    /\ g_processed_cells = g_total_cells
    /\ \A t \in CreatedWorkers : wpc[t] = "joined"

\* C30: under fair scheduling, once all workers are created every worker
\* returns after processing its cells, the progress thread returns and main
\* writes the summary and returns 0; the done flag is set only after every
\* worker has been joined, the progress thread returns only after the flag is
\* set, the summary is written only after the progress thread has returned,
\* and no thread holds output_lock and g_progress_lock together.
C30_FairTermination ==
    /\ (pc = "join") ~> EndedWell
    /\ [](g_done => \A t \in CreatedWorkers : wpc[t] = "joined")
    /\ [](ptpc = "ended" => g_done)
    /\ [](output.summary # <<>> => ptpc = "ended")
    /\ [](\A t \in Threads : ~(output_lock = t /\ g_progress_lock = t))

\* A run of two workers has ended well, each worker has processed a cell and
\* a group has been written.
C30_Witness ==
    /\ EndedWell
    /\ num_threads = 2
    /\ \A t \in CreatedWorkers : work[t].cells_processed >= 1
    /\ total_3 + total_4 >= 1
=============================================================================
